---- MODULE Spec2Model ----
(***************************************************************************)
(* B+ tree secondary index of src/src/btree.cpp (BTreeIndex).  The tree    *)
(* operators are the INTEGER branches; the DOUBLE branches are the same    *)
(* code over another key type, the STRING branches are the short cases at  *)
(* the end of each switch.                                                 *)
(*                                                                         *)
(* Pages are numbered from 1 in allocation order: page 1 is the metadata   *)
(* page, page 2 the initial root.  Arrays are C arrays: indexed from 0,    *)
(* of fixed length, and slots at or beyond numKeys keep whatever was last  *)
(* written to them.                                                        *)
(***************************************************************************)
EXTENDS Integers, Sequences, FiniteSets, TLC

\* leafOccupancy and nodeOccupancy, scaled down from the page-size values
LeafCap == 2
NodeCap == 2
\* Spec, SpecDup: keys 1..MaxKey
MaxKey == 2
\* Spec: each key inserted at most MaxDup times, MaxInserts calls at most
MaxDup == 2
MaxInserts == 3
\* SpecDup: each key inserted at most MaxDupCopies times
MaxDupCopies == 5
\* SpecTree, SpecScanAll: pairwise distinct keys 1..MaxTreeKey
MaxTreeKey == 8
\* SpecInserts: keys 1..MaxMixKey
MaxMixKey == 4
\* number of frames that may stay pinned between calls
MaxPins == 1
\* records of the relation the constructor builds from
MaxRecords == 3
\* keys 1..StoredKeys in an index file that exists before the constructor
StoredKeys == 5
\* insertEntry calls between a constructor and the destructor
MaxLifeInserts == 1
\* SpecScanInsert: insertEntry calls before and during scans
MaxScanInserts == 5
\* destructor calls
MaxCloses == 1
\* pinned frames between calls of an index that was opened or closed
MaxLifePins == 2

Keys == 1..MaxKey
\* scan bounds: below every key, the largest key, above every key
ScanVals == {0, MaxKey, MaxKey + 1}
NoRid == <<0, 0>>

\* enum Operator
Ops == {"LT", "LTE", "GTE", "GT"}

Min(S) == CHOOSE x \in S : \A y \in S : x <= y

(***************************************************************************)
(* Page images                                                             *)
(***************************************************************************)
\* a freshly allocated (zero-filled) page seen as a LeafNodeInt
NewLeaf ==
  [kind |-> "leaf", numKeys |-> 0,
   keyArray |-> [i \in 0..(LeafCap - 1) |-> 0],
   ridArray |-> [i \in 0..(LeafCap - 1) |-> NoRid],
   rightSibPageNo |-> 0]

\* a freshly allocated (zero-filled) page seen as a NonLeafNodeInt
NewNonLeaf ==
  [kind |-> "nonleaf", level |-> 0, numKeys |-> 0,
   keyArray |-> [i \in 0..(NodeCap - 1) |-> 0],
   pageNoArray |-> [i \in 0..NodeCap |-> 0]]

\* constructor arguments: relationName, attrByteOffset, attrType (enum
\* Datatype).  The constructor is called for relation R and offset 4 with
\* every type, and for two relations whose names fill the relationName
\* array of the metadata and exceed it by one character, with offset 4 and
\* with the offset that equals the code of that character; the metadata of a
\* file it finds under the name of R may name any relation and offset.
RelNames == {"R", "S"}
Offsets == {0, 4}
Types == {"INTEGER", "DOUBLE", "STRING"}
\* the length of the array IndexMetaInfo::relationName
NameSize == 32
LongNames ==
  {"ABCDEFGHIJKLMNOPQRSTUVWXYZ123456", "ABCDEFGHIJKLMNOPQRSTUVWXYZ1234567"}
DefaultArgs ==
  [relationName |-> "R", attrByteOffset |-> 4, attrType |-> "INTEGER"]
\* the offsets used with the long names: the default one, and the character
\* code of '7', the character of the longer name that does not fit the array
LongOffsets == {DefaultArgs.attrByteOffset, 55}
LongArgs ==
  [relationName : LongNames,
   attrByteOffset : LongOffsets,
   attrType : {DefaultArgs.attrType}]
CtorArgs ==
  [relationName : {DefaultArgs.relationName},
   attrByteOffset : {DefaultArgs.attrByteOffset}, attrType : Types]
    \cup LongArgs
StoredArgs ==
  [relationName : RelNames, attrByteOffset : Offsets, attrType : Types]

\* IndexMetaInfo as the constructor fills it.  strcpy copies the name and
\* its terminating zero to relationName: the array keeps the first
\* NameSize characters, and holds the terminator only when the name is
\* shorter than the array; what strcpy writes beyond the array lands in the
\* fields behind it, which are assigned afterwards.
IndexMetaInfo(a, root) ==
  [kind |-> "meta",
   relationName |->
     IF Len(a.relationName) <= NameSize THEN a.relationName
     ELSE SubSeq(a.relationName, 1, NameSize),
   terminated |-> Len(a.relationName) < NameSize,
   attrByteOffset |-> a.attrByteOffset, attrType |-> a.attrType,
   rootPageNo |-> root]
MetaPage(root) == IndexMetaInfo(DefaultArgs, root)

\* the bytes of an int up to its first zero byte (for values below 256):
\* least significant byte first, or most significant byte first
IntBytes(n) == {IF n = 0 THEN <<>> ELSE <<n>>, <<>>}

\* the characters relation names are written in, in the order of their codes
Letters == "ABCDEFGHIJKLMNOPQRSTUVWXYZ"
Digits == "0123456789"

\* the code of a character (a string of length 1): 'A' is 65, '0' is 48
CharCode(ch) ==
  IF \E i \in 1..Len(Letters) : SubSeq(Letters, i, i) = ch
  THEN 64 + (CHOOSE i \in 1..Len(Letters) : SubSeq(Letters, i, i) = ch)
  ELSE 47 + (CHOOSE i \in 1..Len(Digits) : SubSeq(Digits, i, i) = ch)

\* the bytes of a string
NameBytes(name) == [i \in 1..Len(name) |-> CharCode(SubSeq(name, i, i))]

\* std::string cmpRelationName(metadata->relationName): the characters of
\* the array up to the terminator; when the array holds none the read runs
\* on into attrByteOffset, and what it appends depends on the byte order
CmpRelationNames(metadata) ==
  IF metadata.terminated
  THEN {[chars |-> metadata.relationName, more |-> <<>>]}
  ELSE {[chars |-> metadata.relationName, more |-> b] :
          b \in IntBytes(metadata.attrByteOffset)}

\* indexFileName: relationName '.' attrByteOffset
IndexFileName(a) == <<a.relationName, a.attrByteOffset>>
FileNames == {IndexFileName(a) : a \in CtorArgs}
NoFile == <<>>
\* File::exists
FileExists(fs, name) == fs[name] # NoFile

headerPageNum == 1

\* buffer manager calls made by an operation, in order
Rd(p) == <<[op |-> "read", page |-> p]>>
Al(p) == <<[op |-> "alloc", page |-> p]>>
Un(p) == <<[op |-> "unpin", page |-> p]>>
\* a store into the frame of page p between two buffer manager calls
Wr(p) == <<[op |-> "write", page |-> p]>>

(***************************************************************************)
(* Helpers of btree.cpp                                                    *)
(***************************************************************************)
\* insertLeafArray: sorted insert of (key, rid) into the first numKeys slots
InsertLeafArray(leaf, key, rid) ==
  LET n == leaf.numKeys
      G == {j \in 0..(n - 1) : leaf.keyArray[j] > key}
      i == IF G = {} THEN n ELSE Min(G)
  IN [leaf EXCEPT
        !.keyArray = [j \in DOMAIN leaf.keyArray |->
                        IF j = i THEN key
                        ELSE IF j > i /\ j <= n THEN leaf.keyArray[j - 1]
                        ELSE leaf.keyArray[j]],
        !.ridArray = [j \in DOMAIN leaf.ridArray |->
                        IF j = i THEN rid
                        ELSE IF j > i /\ j <= n THEN leaf.ridArray[j - 1]
                        ELSE leaf.ridArray[j]],
        !.numKeys = n + 1]

\* insertNonLeafArray: sorted insert of the separator key, its page to the right
InsertNonLeafArrayPageLeft(node, pageNo, key) ==
  LET n == node.numKeys
      G == {j \in 0..(n - 1) : node.keyArray[j] > key}
      i == IF G = {} THEN n ELSE Min(G)
  IN [node EXCEPT
        !.keyArray = [j \in DOMAIN node.keyArray |->
                        IF j = i THEN key
                        ELSE IF j > i /\ j <= n THEN node.keyArray[j - 1]
                        ELSE node.keyArray[j]],
        !.pageNoArray = [j \in DOMAIN node.pageNoArray |->
                        IF j = i THEN pageNo
                        ELSE IF j > i /\ j <= n + 1 THEN node.pageNoArray[j - 1]
                        ELSE node.pageNoArray[j]],
        !.numKeys = n + 1]
InsertNonLeafArray(node, pageNo, key) ==
  LET n == node.numKeys
      G == {j \in 0..(n - 1) : node.keyArray[j] > key}
      i == IF G = {} THEN n ELSE Min(G)
  IN [node EXCEPT
        !.keyArray = [j \in DOMAIN node.keyArray |->
                        IF j = i THEN key
                        ELSE IF j > i /\ j <= n THEN node.keyArray[j - 1]
                        ELSE node.keyArray[j]],
        !.pageNoArray = [j \in DOMAIN node.pageNoArray |->
                        IF j = i + 1 THEN pageNo
                        ELSE IF j > i + 1 /\ j <= n + 1 THEN node.pageNoArray[j - 1]
                        ELSE node.pageNoArray[j]],
        !.numKeys = n + 1]

\* swapRIDKeyPair(x, y): exchange the two pairs if x.key < y.key
SwapKeysOnly(x, y) ==
  IF x.key < y.key
  THEN [x |-> [x EXCEPT !.key = y.key], y |-> [y EXCEPT !.key = x.key]]
  ELSE [x |-> x, y |-> y]
SwapRIDKeyPair(x, y) ==
  IF x.key < y.key THEN [x |-> y, y |-> x] ELSE [x |-> x, y |-> y]

\* swapPageKeyPair(x, y): exchange the two pairs if x.key < y.key
SwapPageKeyPair(x, y) ==
  IF x.key < y.key THEN [x |-> y, y |-> x] ELSE [x |-> x, y |-> y]

\* the for loop of scanTree: first i with key < keyArray[i], else numKeys
ChildIndex(node, key) ==
  LET S == {i \in 0..(node.numKeys - 1) : ~(key >= node.keyArray[i])}
  IN IF S = {} THEN node.numKeys ELSE Min(S)

\* scanTree's right-sibling hint at child index i
RightHint(node, i) ==
  IF ~(i >= NodeCap) THEN node.pageNoArray[i + 1] ELSE 0

\* the while loop of scanTree (both overloads): currLevel non-leaf nodes are
\* visited from currPageId; the four-argument overload also keeps the stack
\* of visited pages and the hint of the last node visited
RECURSIVE Descend(_, _, _, _, _, _)
Descend(pgs, key, currLevel, currPageId, rightPageId, stack) ==
  IF currLevel > 0
  THEN LET currInt == pgs[currPageId]
           i == ChildIndex(currInt, key)
           rest == Descend(pgs, key, currLevel - 1, currInt.pageNoArray[i],
                           RightHint(currInt, i), Append(stack, currPageId))
       IN [rest EXCEPT !.log = Rd(currPageId) \o Un(currPageId) \o @]
  ELSE [pageId |-> currPageId, rightPageId |-> rightPageId,
        stack |-> stack, log |-> <<>>]

\* scanTree(key, pageId, rightPageId, stack)
ScanTreeStackRootKept(pgs, root, key) ==
  LET d == Descend(pgs, key, pgs[root].level, root, 0, <<>>)
  IN [d EXCEPT !.log = Rd(root) \o @]
ScanTreeStack(pgs, root, key) ==
  LET d == Descend(pgs, key, pgs[root].level, root, 0, <<>>)
  IN [d EXCEPT !.log = Rd(root) \o @ \o Un(root)]

\* scanTree(key, pageId)
ScanTree(pgs, root, key) ==
  LET d == Descend(pgs, key, pgs[root].level, root, 0, <<>>)
  IN [pageId |-> d.pageId, log |-> Rd(root) \o d.log \o Un(root)]

(***************************************************************************)
(* insertEntry                                                             *)
(***************************************************************************)
\* a full leaf takes one more entry: the last entry is held aside, the new
\* one is inserted among the others, and the larger of the two candidates
\* for the last slot ends up aside (endKeyPair)
LeafOverflow(leafNode, key, rid) ==
  LET endKeyPair == [key |-> leafNode.keyArray[LeafCap - 1],
                     rid |-> leafNode.ridArray[LeafCap - 1]]
      l1 == InsertLeafArray([leafNode EXCEPT !.numKeys = @ - 1], key, rid)
      currKeyPair == [key |-> l1.keyArray[LeafCap - 1],
                      rid |-> l1.ridArray[LeafCap - 1]]
      sw == SwapRIDKeyPair(endKeyPair, currKeyPair)
  IN [leaf |-> [l1 EXCEPT !.keyArray[LeafCap - 1] = sw.y.key,
                          !.ridArray[LeafCap - 1] = sw.y.rid],
      endKeyPair |-> sw.x]

\* the position (k to end) in a full leaf that is moved to the new leaf
LeafSplitPosLow == (LeafCap - 1) \div 2
LeafSplitPos == (LeafCap + 1) \div 2

\* the new right leaf: slots k.. of the overflowing leaf, then endKeyPair
NewRightLeafAsideFirst(leafNode, endKeyPair, rightSib) ==
  LET k == LeafSplitPos
      m == LeafCap - k
  IN [NewLeaf EXCEPT
        !.keyArray = [j \in DOMAIN NewLeaf.keyArray |->
                        IF j = 0 THEN endKeyPair.key
                        ELSE IF j <= m THEN leafNode.keyArray[j - 1 + k] ELSE 0],
        !.ridArray = [j \in DOMAIN NewLeaf.ridArray |->
                        IF j = 0 THEN endKeyPair.rid
                        ELSE IF j <= m THEN leafNode.ridArray[j - 1 + k] ELSE NoRid],
        !.numKeys = m + 1,
        !.rightSibPageNo = rightSib]
NewRightLeaf(leafNode, endKeyPair, rightSib) ==
  LET k == LeafSplitPos
      m == LeafCap - k
  IN [NewLeaf EXCEPT
        !.keyArray = [j \in DOMAIN NewLeaf.keyArray |->
                        IF j < m THEN leafNode.keyArray[j + k]
                        ELSE IF j = m THEN endKeyPair.key ELSE 0],
        !.ridArray = [j \in DOMAIN NewLeaf.ridArray |->
                        IF j < m THEN leafNode.ridArray[j + k]
                        ELSE IF j = m THEN endKeyPair.rid ELSE NoRid],
        !.numKeys = m + 1,
        !.rightSibPageNo = rightSib]

\* the position in a full non-leaf whose key is handed upward
NodeSplitPosLow == (NodeCap - 1) \div 2
NodeSplitPos == (NodeCap + 1) \div 2

\* a full non-leaf takes one more separator (same scheme as LeafOverflow)
NodeOverflow(currNode, pagePair) ==
  LET endPagePair == [pageNo |-> currNode.pageNoArray[NodeCap],
                      key |-> currNode.keyArray[NodeCap - 1]]
      n1 == InsertNonLeafArray([currNode EXCEPT !.numKeys = @ - 1],
                               pagePair.pageNo, pagePair.key)
      currPagePair == [pageNo |-> n1.pageNoArray[NodeCap],
                       key |-> n1.keyArray[NodeCap - 1]]
      sw == SwapPageKeyPair(endPagePair, currPagePair)
  IN [node |-> [n1 EXCEPT !.keyArray[NodeCap - 1] = sw.y.key,
                          !.pageNoArray[NodeCap] = sw.y.pageNo],
      endPagePair |-> sw.x]

\* the new right non-leaf: keys k+1.. and pages k+1.. of the overflowing
\* node, then endPagePair
NewRightNodeFromMiddle(currNode, endPagePair) ==
  LET k == NodeSplitPos
      jEnd == IF k < NodeCap - 1 THEN NodeCap - 1 ELSE k
      m == jEnd - k
  IN [NewNonLeaf EXCEPT
        !.level = currNode.level,
        !.keyArray = [t \in DOMAIN NewNonLeaf.keyArray |->
                        IF t < m THEN currNode.keyArray[t + k]
                        ELSE IF t = m THEN endPagePair.key ELSE 0],
        !.pageNoArray = [t \in DOMAIN NewNonLeaf.pageNoArray |->
                        IF t <= m THEN currNode.pageNoArray[t + k]
                        ELSE IF t = m + 1 THEN endPagePair.pageNo ELSE 0],
        !.numKeys = m + 1]
NewRightNode(currNode, endPagePair) ==
  LET k == NodeSplitPos
      jEnd == IF k < NodeCap - 1 THEN NodeCap - 1 ELSE k
      m == jEnd - k
  IN [NewNonLeaf EXCEPT
        !.level = currNode.level,
        !.keyArray = [t \in DOMAIN NewNonLeaf.keyArray |->
                        IF t < m THEN currNode.keyArray[t + k + 1]
                        ELSE IF t = m THEN endPagePair.key ELSE 0],
        !.pageNoArray = [t \in DOMAIN NewNonLeaf.pageNoArray |->
                        IF t <= m THEN currNode.pageNoArray[t + k + 1]
                        ELSE IF t = m + 1 THEN endPagePair.pageNo ELSE 0],
        !.numKeys = m + 1]

\* the brand-new root installed when the old root currPageId has split
NewRootSiblingFirst(currNode, currPageId, pagePair) ==
  [NewNonLeaf EXCEPT
     !.level = currNode.level + 1,
     !.pageNoArray = [@ EXCEPT ![0] = pagePair.pageNo, ![1] = currPageId],
     !.keyArray = [@ EXCEPT ![0] = pagePair.key],
     !.numKeys = 1]
NewRootSameLevel(currNode, currPageId, pagePair) ==
  [NewNonLeaf EXCEPT
     !.level = currNode.level,
     !.pageNoArray = [@ EXCEPT ![0] = currPageId, ![1] = pagePair.pageNo],
     !.keyArray = [@ EXCEPT ![0] = pagePair.key],
     !.numKeys = 1]
NewRoot(currNode, currPageId, pagePair) ==
  [NewNonLeaf EXCEPT
     !.level = currNode.level + 1,
     !.pageNoArray = [@ EXCEPT ![0] = currPageId, ![1] = pagePair.pageNo],
     !.keyArray = [@ EXCEPT ![0] = pagePair.key],
     !.numKeys = 1]

\* "metadata->rootPageNo = rootPageNum" after a root split
KeepRootPageNo(pgs, newRootId) == pgs
SetRootPageNo(pgs, newRootId) ==
  [pgs EXCEPT ![headerPageNum].rootPageNo = newRootId]

\* "Reverse traversal up the tree": the while loop over pageStack
RECURSIVE Propagate(_, _, _, _, _)
Propagate(pgs, root, pageStack, pagePair, log) ==
  IF Len(pageStack) = 0
  THEN [pages |-> pgs, rootPageNum |-> root, log |-> log]
  ELSE
    LET currPageId == pageStack[Len(pageStack)]
        rest == SubSeq(pageStack, 1, Len(pageStack) - 1)
        currNode == pgs[currPageId]
    IN IF currNode.numKeys >= NodeCap
       THEN
         LET ov == NodeOverflow(currNode, pagePair)
             newPageId == Len(pgs) + 1
             k == NodeSplitPos
             upPair == [pageNo |-> newPageId, key |-> ov.node.keyArray[k]]
             left == [ov.node EXCEPT !.numKeys = k]
             right == NewRightNode(ov.node, ov.endPagePair)
             pgs1 == Append([pgs EXCEPT ![currPageId] = left], right)
         IN IF Len(rest) = 0
            THEN
              LET newRootId == newPageId + 1
                  pgs2 == Append(pgs1, NewRoot(left, currPageId, upPair))
                  pgs3 == SetRootPageNo(pgs2, newRootId)
              IN Propagate(pgs3, newRootId, rest, upPair,
                           log \o Rd(currPageId) \o Al(newPageId)
                               \o Al(newRootId) \o Un(newRootId)
                               \o Rd(headerPageNum) \o Un(headerPageNum)
                               \o Un(newPageId) \o Un(currPageId))
            ELSE Propagate(pgs1, root, rest, upPair,
                           log \o Rd(currPageId) \o Al(newPageId)
                               \o Un(newPageId) \o Un(currPageId))
       ELSE
         [pages |-> [pgs EXCEPT ![currPageId] =
                       InsertNonLeafArray(currNode, pagePair.pageNo, pagePair.key)],
          rootPageNum |-> root,
          log |-> log \o Rd(currPageId) \o Un(currPageId)]

\* insertEntry, root at level 0 and no leaf yet: the first leaf is created
InsertFirstLeaf(pgs, root, key, rid) ==
  LET newId == Len(pgs) + 1
      leafInt == [NewLeaf EXCEPT !.keyArray[0] = key, !.ridArray[0] = rid,
                                 !.numKeys = 1, !.rightSibPageNo = 0]
  IN [pages |-> Append([pgs EXCEPT ![root].pageNoArray[0] = newId], leafInt),
      rootPageNum |-> root,
      log |-> Rd(root) \o Al(newId) \o Un(newId) \o Un(root)]

\* insertEntry, root at level 0 with its single leaf
InsertLevelZero(pgs, root, key, rid) ==
  LET rootInt == pgs[root]
      leafId == rootInt.pageNoArray[0]
      leafNode == pgs[leafId]
  IN IF leafNode.numKeys >= LeafCap
     THEN
       LET ov == LeafOverflow(leafNode, key, rid)
           newId == Len(pgs) + 1
           k == LeafSplitPos
           root1 == [rootInt EXCEPT !.pageNoArray[1] = newId,
                                    !.level = @ + 1,
                                    !.keyArray[0] = ov.leaf.keyArray[k],
                                    !.numKeys = @ + 1]
           left == [ov.leaf EXCEPT !.numKeys = k, !.rightSibPageNo = newId]
           right == NewRightLeaf(ov.leaf, ov.endKeyPair, 0)
       IN [pages |-> Append([pgs EXCEPT ![root] = root1, ![leafId] = left], right),
           rootPageNum |-> root,
           log |-> Rd(root) \o Rd(leafId) \o Al(newId)
                   \o Un(leafId) \o Un(newId) \o Un(root)]
     ELSE
       [pages |-> [pgs EXCEPT ![leafId] = InsertLeafArray(leafNode, key, rid)],
        rootPageNum |-> root,
        log |-> Rd(root) \o Rd(leafId) \o Un(leafId) \o Un(root)]

\* insertEntry, root at level >= 1: descent, leaf insert, splits upward
InsertDescend(pgs, root, key, rid) ==
  LET d == ScanTreeStack(pgs, root, key)
      currPageId == d.pageId
      leafNode == pgs[currPageId]
  IN IF leafNode.numKeys >= LeafCap
     THEN
       LET ov == LeafOverflow(leafNode, key, rid)
           newLeafNodeId == Len(pgs) + 1
           k == LeafSplitPos
           pagePair == [pageNo |-> newLeafNodeId, key |-> ov.leaf.keyArray[k]]
           left == [ov.leaf EXCEPT !.numKeys = k,
                                   !.rightSibPageNo = newLeafNodeId]
           right == NewRightLeaf(ov.leaf, ov.endKeyPair, d.rightPageId)
           pgs1 == Append([pgs EXCEPT ![currPageId] = left], right)
       IN Propagate(pgs1, root, d.stack, pagePair,
                    Rd(root) \o d.log \o Rd(currPageId) \o Al(newLeafNodeId)
                      \o Un(currPageId) \o Un(newLeafNodeId) \o Un(root))
     ELSE
       [pages |-> [pgs EXCEPT ![currPageId] = InsertLeafArray(leafNode, key, rid)],
        rootPageNum |-> root,
        log |-> Rd(root) \o d.log \o Rd(currPageId)
                \o Un(currPageId) \o Un(root)]

\* BTreeIndex::insertEntry, case INTEGER
InsertEntry(pgs, root, key, rid) ==
  IF pgs[root].level = 0
  THEN IF pgs[root].pageNoArray[0] = 0
       THEN InsertFirstLeaf(pgs, root, key, rid)
       ELSE InsertLevelZero(pgs, root, key, rid)
  ELSE InsertDescend(pgs, root, key, rid)

\* insertEntry, case STRING: the root is read, its level is set to 0 and
\* the call returns: no entry is stored and the root stays pinned
InsertEntryString(pgs, root) ==
  [pages |-> [pgs EXCEPT ![root].level = 0],
   rootPageNum |-> root,
   log |-> Rd(root)]

\* BTreeIndex::insertEntry on an index of the given attributeType
InsertEntryOn(attributeType, pgs, root, key, rid) ==
  IF attributeType = "STRING" THEN InsertEntryString(pgs, root)
  ELSE InsertEntry(pgs, root, key, rid)

\* The statements of insertEntry in program order: the buffer manager calls
\* and, between them, the stores into page frames (consecutive stores into
\* one page are one step).  allocPage(file, rootInt->pageNoArray[i], ..)
\* stores the new page number into the root's frame.
\* the steps of the while loop over pageStack; newPageId is the next page
\* number allocPage hands out
RECURSIVE PropagateSteps(_, _, _)
PropagateSteps(pgs, pageStack, newPageId) ==
  IF Len(pageStack) = 0 THEN <<>>
  ELSE
    LET currPageId == pageStack[Len(pageStack)]
        rest == SubSeq(pageStack, 1, Len(pageStack) - 1)
    IN IF pgs[currPageId].numKeys >= NodeCap
       THEN IF Len(rest) = 0
            THEN Rd(currPageId) \o Wr(currPageId) \o Al(newPageId)
                   \o Wr(currPageId) \o Wr(newPageId)
                   \o Al(newPageId + 1) \o Wr(newPageId + 1)
                   \o Un(newPageId + 1)
                   \o Rd(headerPageNum) \o Wr(headerPageNum)
                   \o Un(headerPageNum)
                   \o Un(newPageId) \o Un(currPageId)
            ELSE Rd(currPageId) \o Wr(currPageId) \o Al(newPageId)
                   \o Wr(currPageId) \o Wr(newPageId)
                   \o Un(newPageId) \o Un(currPageId)
                   \o PropagateSteps(pgs, rest, newPageId + 1)
       ELSE Rd(currPageId) \o Wr(currPageId) \o Un(currPageId)

\* the steps of insertEntry below a root of level >= 1 when the leaf is full
DescendSplitStepsFillLast(pgs, root, key) ==
  LET d == ScanTreeStack(pgs, root, key)
      currPageId == d.pageId
      newLeafNodeId == Len(pgs) + 1
  IN Rd(root) \o d.log \o Rd(currPageId)
       \o Wr(currPageId) \o Al(newLeafNodeId) \o Wr(currPageId)
       \o Un(currPageId) \o Un(newLeafNodeId) \o Un(root)
       \o PropagateSteps(pgs, d.stack, newLeafNodeId + 1)
       \o Wr(newLeafNodeId)
DescendSplitSteps(pgs, root, key) ==
  LET d == ScanTreeStack(pgs, root, key)
      currPageId == d.pageId
      newLeafNodeId == Len(pgs) + 1
  IN Rd(root) \o d.log \o Rd(currPageId)
       \o Wr(currPageId) \o Al(newLeafNodeId)
       \o Wr(currPageId) \o Wr(newLeafNodeId)
       \o Un(currPageId) \o Un(newLeafNodeId) \o Un(root)
       \o PropagateSteps(pgs, d.stack, newLeafNodeId + 1)

\* the steps of BTreeIndex::insertEntry
InsertSteps(pgs, root, key) ==
  LET newId == Len(pgs) + 1
  IN IF pgs[root].level = 0
     THEN IF pgs[root].pageNoArray[0] = 0
          THEN Rd(root) \o Al(newId) \o Wr(root) \o Wr(newId)
                 \o Un(newId) \o Un(root)
          ELSE LET leafId == pgs[root].pageNoArray[0]
               IN IF pgs[leafId].numKeys >= LeafCap
                  THEN Rd(root) \o Rd(leafId) \o Wr(leafId) \o Al(newId)
                         \o Wr(root) \o Wr(leafId) \o Wr(newId)
                         \o Un(leafId) \o Un(newId) \o Un(root)
                  ELSE Rd(root) \o Rd(leafId) \o Wr(leafId)
                         \o Un(leafId) \o Un(root)
     ELSE LET d == ScanTreeStack(pgs, root, key)
              currPageId == d.pageId
          IN IF pgs[currPageId].numKeys >= LeafCap
             THEN DescendSplitSteps(pgs, root, key)
             ELSE Rd(root) \o d.log \o Rd(currPageId) \o Wr(currPageId)
                    \o Un(currPageId) \o Un(root)

(***************************************************************************)
(* Buffer manager pin counts                                               *)
(***************************************************************************)
\* readPage and allocPage pin the page, unPinPage releases one pin
RECURSIVE ApplyLog(_, _)
ApplyLog(pn, log) ==
  IF log = <<>> THEN pn
  ELSE LET e == Head(log)
           cur == IF e.page \in DOMAIN pn THEN pn[e.page] ELSE 0
           new == IF e.op = "unpin" THEN cur - 1 ELSE cur + 1
       IN ApplyLog([p \in DOMAIN pn \cup {e.page} |->
                      IF p = e.page THEN new ELSE pn[p]], Tail(log))

(***************************************************************************)
(* State                                                                   *)
(***************************************************************************)
VARIABLES
  pages,            \* the index file: page number -> page image
  rootPageNum,      \* BTreeIndex::rootPageNum
  pins,             \* buffer manager: page number -> pin count
  scanExecuting,    \* BTreeIndex::scanExecuting
  nextEntry,        \* BTreeIndex::nextEntry
  currentPageNum,   \* BTreeIndex::currentPageNum
  currentPageData,  \* what currentPageData shows when the page is no leaf
  lowOp, highOp,    \* BTreeIndex::lowOp, highOp
  lowValInt, highValInt,
  last,             \* the last call: its name, its arguments (startScan),
                    \* the error it threw, its outRid, whether a scan was
                    \* executing when it was made, its buffer manager calls
  inserted,         \* history: the RIDs passed to insertEntry
  emitted,          \* history: outRids of the scan since its startScan
  undisturbed,      \* history: no insertEntry since the last startScan
  alive,            \* a BTreeIndex object exists (constructed, not destroyed)
  indexArgs,        \* the arguments of the last constructor call
  files,            \* index file name -> page images when the file was
                    \* created or opened, <<>> when no such file exists
  relation,         \* the keys of the relation's records in scanner order
  built,            \* history: the insertEntry calls of the last constructor
  closed            \* history: the index at the last destructor call

vars == <<pages, rootPageNum, pins, scanExecuting, nextEntry, currentPageNum,
          currentPageData, lowOp, highOp, lowValInt, highValInt, last,
          inserted, emitted, undisturbed,
          alive, indexArgs, files, relation, built, closed>>

treeVars == <<pages, rootPageNum>>
lifeVars == <<alive, indexArgs, files, relation, built, closed>>
cursorVars == <<scanExecuting, nextEntry, currentPageNum, currentPageData,
                lowOp, highOp, lowValInt, highValInt>>

\* a RID is (page number, slot number); the model gives the c-th record
\* with key k the RID (k, c)
KeyOf(rid) == rid[1]
Copies(k) == Cardinality({r \in inserted : KeyOf(r) = k})

\* the RIDs inserted so far whose key satisfies both bounds
Matching(lowVal, lo, highVal, ho) ==
  {r \in inserted : /\ lo = "GT" => KeyOf(r) > lowVal
                    /\ lo = "GTE" => KeyOf(r) >= lowVal
                    /\ ho = "LT" => KeyOf(r) < highVal
                    /\ ho = "LTE" => KeyOf(r) <= highVal}

\* history: the arguments of a startScan call as the model remembers them:
\* an operator outside its side's pair is remembered as "other", and the
\* bound values are remembered only when both operators are in their pairs
Remembered(lowVal, lo, highVal, ho) ==
  IF lo \in {"GT", "GTE"} /\ ho \in {"LT", "LTE"}
  THEN <<lowVal, lo, highVal, ho>>
  ELSE <<0, IF lo \in {"GT", "GTE"} THEN lo ELSE "other",
         0, IF ho \in {"LT", "LTE"} THEN ho ELSE "other">>

\* history: the arguments of a call that is no startScan
NoArgs == <<0, "GT", 0, "LT">>

\* no page of a new file is pinned (pins[0] is the count kept for page
\* number 0, which no file has)
NoPins == [p \in 0..(headerPageNum + 1) |-> 0]

\* history: no destructor has been called
NotClosed ==
  [count |-> 0, args |-> DefaultArgs, rootPageNum |-> 0, pages |-> <<>>]

\* the constructor on a new index file over an empty relation: metadata on
\* page 1, a level-0 root without keys or children on page 2, both
\* allocated and unpinned by the call, no page pinned afterwards (pins[0]
\* is the count kept for page number 0, which no file has); the cursor
\* fields other than scanExecuting are not written by the constructor
Init ==
  /\ pages = <<MetaPage(2), NewNonLeaf>>
  /\ rootPageNum = 2
  /\ pins = [p \in 0..2 |-> 0]
  /\ scanExecuting = FALSE
  /\ nextEntry = -1
  /\ currentPageNum = 0
  /\ currentPageData = NewLeaf
  /\ lowOp = "GT"
  /\ highOp = "LT"
  /\ lowValInt = 0
  /\ highValInt = 0
  /\ last = [op |-> "constructor", err |-> "ok", rid |-> NoRid, was |-> FALSE,
             args |-> NoArgs,
             log |-> Al(headerPageNum) \o Al(headerPageNum + 1)
                       \o Un(headerPageNum) \o Un(headerPageNum + 1)]
  /\ inserted = {}
  /\ emitted = <<>>
  /\ undisturbed = FALSE
  /\ alive = TRUE
  /\ indexArgs = DefaultArgs
  /\ files = [n \in FileNames |->
                IF n = IndexFileName(DefaultArgs)
                THEN <<MetaPage(2), NewNonLeaf>> ELSE NoFile]
  /\ relation = <<>>
  /\ built = <<>>
  /\ closed = NotClosed

RECURSIVE SumPins(_, _)
SumPins(pn, S) ==
  IF S = {} THEN 0
  ELSE LET p == CHOOSE q \in S : TRUE IN pn[p] + SumPins(pn, S \ {p})

\* the buffer pool has room for MaxPins pinned frames between calls
PinsWithin(pn, maxPins) == SumPins(pn, DOMAIN pn) <= maxPins
PinsBounded(pn) == PinsWithin(pn, MaxPins)

(***************************************************************************)
(* insertEntry as an action                                                *)
(***************************************************************************)
InsertUpTo(bound, dup, k) ==
  /\ Cardinality(inserted) < bound
  /\ Copies(k) < dup
  /\ LET rid == <<k, Copies(k) + 1>>
         r == InsertEntryOn(indexArgs.attrType, pages, rootPageNum, k, rid)
     IN /\ pages' = r.pages
        /\ rootPageNum' = r.rootPageNum
        /\ pins' = ApplyLog(pins, r.log)
        /\ inserted' = inserted \cup {rid}
  /\ last' = [op |-> "insertEntry", err |-> "ok", rid |-> NoRid,
              was |-> scanExecuting, args |-> NoArgs,
              log |-> InsertEntryOn(indexArgs.attrType, pages, rootPageNum,
                                    k, <<k, Copies(k) + 1>>).log]
  /\ undisturbed' = FALSE
  /\ UNCHANGED <<cursorVars, emitted, lifeVars>>

Insert == \E k \in Keys : InsertUpTo(MaxInserts, MaxDup, k)

\* insertEntry calls only, pairwise distinct keys, trees of three levels
TreeInsert == \E k \in 1..MaxTreeKey : InsertUpTo(MaxTreeKey, 1, k)
SpecTree == Init /\ [][TreeInsert]_vars

\* insertEntry calls only, keys may repeat
DupInsert ==
  \E k \in Keys : InsertUpTo(MaxKey * MaxDupCopies, MaxDupCopies, k)
SpecDup == Init /\ [][DupInsert]_vars

\* insertEntry calls only: keys 1..MaxMixKey, each at most MaxDup times, so
\* that runs of distinct keys and runs with repeated keys are both among
\* the behaviours
MixedInsert ==
  \E k \in 1..MaxMixKey : InsertUpTo(MaxMixKey * MaxDup, MaxDup, k)
SpecInserts == Init /\ [][MixedInsert]_vars

(***************************************************************************)
(* The scan cursor                                                         *)
(***************************************************************************)
IsLeafPage(pgs, p) == p \in 1..Len(pgs) /\ pgs[p].kind = "leaf"

\* What a LeafNodeInt* shows of page p.  A leaf shows itself.  The only
\* other page the cursor is pointed at is the root page that scanTree
\* returns while the root is at level 0: it holds zeros and the page number
\* of its one child, and read as a leaf it shows no entry (numKeys = 0) and
\* no right sibling (rightSibPageNo = 0).
LeafViews(pgs, p) ==
  IF IsLeafPage(pgs, p) THEN {pgs[p]} ELSE {NewLeaf}

\* readPage of a page number the file does not have throws
\* InvalidPageException
ReadThrows(pgs, p) == p \notin 1..Len(pgs)

\* the keyArray[i] > lowVal / >= lowVal tests of startScan
SatisfiesLow(key, op, val) ==
  IF op = "GT" THEN key > val
  ELSE IF op = "GTE" THEN key >= val
  ELSE FALSE

\* the keyArray[nextEntry] < highVal / <= highVal tests
SatisfiesHigh(key, op, val) ==
  IF op = "LT" THEN key < val
  ELSE IF op = "LTE" THEN key <= val
  ELSE TRUE

\* the search loops of startScan: first slot satisfying the lower bound
FirstEntryAllSlots(leafInt, op, val) ==
  LET S == {i \in 0..(LeafCap - 1) :
              SatisfiesLow(leafInt.keyArray[i], op, val)}
  IN IF S = {} THEN -1 ELSE Min(S)
FirstEntry(leafInt, op, val) ==
  LET S == {i \in 0..(leafInt.numKeys - 1) :
              SatisfiesLow(leafInt.keyArray[i], op, val)}
  IN IF S = {} THEN -1 ELSE Min(S)

\* the cursor fields as a record, with the buffer manager calls made so far
\* and the exception thrown ("ok" when none)
Cur ==
  [scanExecuting |-> scanExecuting, nextEntry |-> nextEntry,
   currentPageNum |-> currentPageNum, currentPageData |-> currentPageData,
   lowOp |-> lowOp, highOp |-> highOp,
   lowValInt |-> lowValInt, highValInt |-> highValInt,
   log |-> <<>>, err |-> "ok"]

\* BTreeIndex::endScan
EndScanUnguarded(c) ==
  [c EXCEPT !.scanExecuting = FALSE,
            !.log = @ \o Un(c.currentPageNum),
            !.currentPageNum = 0,
            !.currentPageData = NewLeaf,
            !.nextEntry = -1]
EndScanCall(c) ==
  IF ~c.scanExecuting THEN [c EXCEPT !.err = "ScanNotInitialized"]
  ELSE [c EXCEPT !.scanExecuting = FALSE,
                 !.log = @ \o Un(c.currentPageNum),
                 !.currentPageNum = 0,
                 !.currentPageData = NewLeaf,
                 !.nextEntry = -1]

\* "endScan(); throw NoSuchKeyFoundException();"
ThrowNoSuchKey(c) == [c EXCEPT !.err = "NoSuchKeyFound"]
EndScanThenNoSuchKey(c) ==
  LET e == EndScanCall(c)
  IN IF e.err # "ok" THEN e ELSE [e EXCEPT !.err = "NoSuchKeyFound"]

\* startScan from "If the key found does not satisfy highOp"
CheckHigh(c, leafInt) ==
  IF ~SatisfiesHigh(leafInt.keyArray[c.nextEntry], c.highOp, c.highValInt)
  THEN EndScanThenNoSuchKey(c)
  ELSE c

\* bufMgr->readPage(file, currentPageNum, currentPageData): what the model
\* keeps of the frame it points at (a leaf is read from pgs when needed)
PointAt(pgs, c, leafInt) ==
  [c EXCEPT !.currentPageData =
              IF IsLeafPage(pgs, c.currentPageNum) THEN NewLeaf ELSE leafInt]

\* the cursor once an entry is found at slot i of the page it is on
Found(pgs, c, leafInt, i) ==
  [c EXCEPT !.nextEntry = i, !.scanExecuting = TRUE,
            !.currentPageData =
               IF IsLeafPage(pgs, c.currentPageNum) THEN NewLeaf ELSE leafInt]

\* startScan, "Search the right sibling if it is not found": leafInt is
\* what the right sibling shows
SearchSibling(pgs, c, leafInt) ==
  LET i == FirstEntry(leafInt, c.lowOp, c.lowValInt)
  IN IF i # -1 THEN CheckHigh(Found(pgs, c, leafInt, i), leafInt)
     ELSE EndScanThenNoSuchKey(c)

\* startScan, "Search through the current leaf node": leafInt is what the
\* page returned by scanTree shows
SearchLeaf(pgs, c, leafInt) ==
  LET i == FirstEntry(leafInt, c.lowOp, c.lowValInt)
  IN IF i # -1 THEN {CheckHigh(Found(pgs, c, leafInt, i), leafInt)}
     ELSE
       LET rightPageId == leafInt.rightSibPageNo
           c1 == [c EXCEPT !.log = @ \o Un(c.currentPageNum),
                           !.currentPageNum = rightPageId]
           c2 == [c1 EXCEPT !.log = @ \o Rd(rightPageId)]
       IN IF ReadThrows(pgs, rightPageId)
          THEN {[c1 EXCEPT !.err = "InvalidPage"]}
          ELSE {SearchSibling(pgs, PointAt(pgs, c2, v), v) :
                  v \in LeafViews(pgs, rightPageId)}

\* startScan from "Scan for the low Value"
Position(pgs, root, c) ==
  LET t == ScanTree(pgs, root, c.lowValInt)
      c1 == [c EXCEPT !.currentPageNum = t.pageId,
                      !.log = @ \o t.log \o Rd(t.pageId)]
  IN UNION {SearchLeaf(pgs, PointAt(pgs, c1, v), v) :
              v \in LeafViews(pgs, t.pageId)}

\* startScan, "If another scan is executing"
EndPreviousSkipped(c) == c
EndPrevious(c) == IF c.scanExecuting THEN EndScanCall(c) ELSE c

\* startScan, "Check parameter": the two operator tests
BadLowOpEither(lowOpParm) == lowOpParm # "GT" \/ lowOpParm # "GTE"
BadLowOp(lowOpParm) == lowOpParm # "GT" /\ lowOpParm # "GTE"

BadHighOp(highOpParm) == highOpParm # "LT" /\ highOpParm # "LTE"

\* startScan, "if(lowValInt > highValInt)"
BadRangeOrEqual(lowVal, highVal) == lowVal >= highVal
BadRange(lowVal, highVal) == lowVal > highVal

\* BTreeIndex::startScan: the cursor records it can end with
StartScanOutcomes(pgs, root, c, lowValParm, lowOpParm, highValParm, highOpParm) ==
  LET c0 == EndPrevious(c)
  IN IF BadLowOp(lowOpParm)
     THEN {[c0 EXCEPT !.err = "BadOpcodes"]}
     ELSE
       LET c1 == [c0 EXCEPT !.lowOp = lowOpParm]
       IN IF BadHighOp(highOpParm)
          THEN {[c1 EXCEPT !.err = "BadOpcodes"]}
          ELSE
            LET c2 == [c1 EXCEPT !.highOp = highOpParm,
                                 !.lowValInt = lowValParm,
                                 !.highValInt = highValParm]
            IN IF BadRange(lowValParm, highValParm)
               THEN {[c2 EXCEPT !.err = "BadScanrange"]}
               ELSE Position(pgs, root, c2)

\* startScan, case STRING: the previous scan is ended, the operators are
\* checked and stored, and the call returns without starting a scan
StartScanString(c, lowOpParm, highOpParm) ==
  LET c0 == EndPrevious(c)
  IN IF BadLowOp(lowOpParm)
     THEN {[c0 EXCEPT !.err = "BadOpcodes"]}
     ELSE IF BadHighOp(highOpParm)
     THEN {[c0 EXCEPT !.lowOp = lowOpParm, !.err = "BadOpcodes"]}
     ELSE {[c0 EXCEPT !.lowOp = lowOpParm, !.highOp = highOpParm]}

\* BTreeIndex::startScan on an index of the given attributeType
StartScanOn(attributeType, pgs, root, c, lowValParm, lowOpParm, highValParm, highOpParm) ==
  IF attributeType = "STRING"
  THEN StartScanString(c, lowOpParm, highOpParm)
  ELSE StartScanOutcomes(pgs, root, c,
                         lowValParm, lowOpParm, highValParm, highOpParm)

\* what the LeafNodeInt* currentPageData shows
CurrentLeaf(pgs, c) ==
  IF IsLeafPage(pgs, c.currentPageNum) THEN pgs[c.currentPageNum]
  ELSE c.currentPageData

\* scanNext, "throw IndexScanCompletedException()": no field is written
ScanCompletedEndsScan(c) ==
  [cur |-> [c EXCEPT !.scanExecuting = FALSE, !.err = "IndexScanCompleted"],
   rid |-> NoRid]
ScanCompleted(c) ==
  [cur |-> [c EXCEPT !.err = "IndexScanCompleted"], rid |-> NoRid]

\* scanNext, "If there is no right sibling": the last entry of the last
\* leaf is delivered, no buffer manager call is made
NoRightSiblingUnpins(c, outRid) ==
  [cur |-> [c EXCEPT !.nextEntry = -1, !.log = @ \o Un(c.currentPageNum)],
   rid |-> outRid]
NoRightSiblingStays(c, outRid) == [cur |-> c, rid |-> outRid]
NoRightSibling(c, outRid) ==
  [cur |-> [c EXCEPT !.nextEntry = -1], rid |-> outRid]

\* BTreeIndex::scanNext: the cursor records it can end with, each with the
\* outRid it delivers
ScanNextOutcomes(pgs, c) ==
  IF ~c.scanExecuting
  THEN {[cur |-> [c EXCEPT !.err = "ScanNotInitialized"], rid |-> NoRid]}
  ELSE IF c.nextEntry = -1
  THEN {ScanCompleted(c)}
  ELSE
    LET leafInt == CurrentLeaf(pgs, c)
    IN IF ~SatisfiesHigh(leafInt.keyArray[c.nextEntry], c.highOp, c.highValInt)
       THEN {ScanCompleted(c)}
       ELSE
         LET outRid == leafInt.ridArray[c.nextEntry]
         IN IF c.nextEntry + 1 >= leafInt.numKeys
            THEN
              LET rightPageId == leafInt.rightSibPageNo
              IN IF rightPageId = 0
                 THEN {NoRightSibling(c, outRid)}
                 ELSE {[cur |-> [c EXCEPT
                                   !.log = @ \o Un(c.currentPageNum)
                                             \o Rd(rightPageId),
                                   !.currentPageNum = rightPageId,
                                   !.currentPageData =
                                      IF IsLeafPage(pgs, rightPageId)
                                      THEN NewLeaf ELSE v,
                                   !.nextEntry = 0],
                         rid |-> outRid] : v \in LeafViews(pgs, rightPageId)}
            ELSE {[cur |-> [c EXCEPT !.nextEntry = @ + 1], rid |-> outRid]}

\* scanNext, case STRING: after the two tests nothing is done
ScanNextString(c) ==
  IF ~c.scanExecuting
  THEN {[cur |-> [c EXCEPT !.err = "ScanNotInitialized"], rid |-> NoRid]}
  ELSE IF c.nextEntry = -1
  THEN {ScanCompleted(c)}
  ELSE {[cur |-> c, rid |-> NoRid]}

\* BTreeIndex::scanNext on an index of the given attributeType
ScanNextOn(attributeType, pgs, c) ==
  IF attributeType = "STRING" THEN ScanNextString(c)
  ELSE ScanNextOutcomes(pgs, c)

\* The cursor members take the values of cursor record c: what a call
\* wrote stays until another call writes it, whether or not a scan is
\* executing.
SetCursor(c) ==
  /\ scanExecuting' = c.scanExecuting
  /\ nextEntry' = c.nextEntry
  /\ currentPageNum' = c.currentPageNum
  /\ currentPageData' = c.currentPageData
  /\ lowOp' = c.lowOp
  /\ highOp' = c.highOp
  /\ lowValInt' = c.lowValInt
  /\ highValInt' = c.highValInt

\* startScan where the buffer pool has room for maxPins pinned frames
StartScanWithin(maxPins, lowValParm, lowOpParm, highValParm, highOpParm) ==
  \E o \in StartScanOn(indexArgs.attrType, pages, rootPageNum, Cur,
                       lowValParm, lowOpParm, highValParm, highOpParm) :
    /\ PinsWithin(ApplyLog(pins, o.log), maxPins)
    /\ SetCursor(o)
    /\ pins' = ApplyLog(pins, o.log)
    /\ last' = [op |-> "startScan", err |-> o.err, rid |-> NoRid,
                was |-> scanExecuting,
                args |-> Remembered(lowValParm, lowOpParm, highValParm, highOpParm),
                log |-> o.log]
    /\ emitted' = <<>>
    /\ undisturbed' = (o.err = "ok")
    /\ UNCHANGED <<treeVars, inserted, lifeVars>>

StartScan(lowValParm, lowOpParm, highValParm, highOpParm) ==
  StartScanWithin(MaxPins, lowValParm, lowOpParm, highValParm, highOpParm)

ScanNextWithin(maxPins) ==
  \E o \in ScanNextOn(indexArgs.attrType, pages, Cur) :
    /\ PinsWithin(ApplyLog(pins, o.cur.log), maxPins)
    /\ SetCursor(o.cur)
    /\ pins' = ApplyLog(pins, o.cur.log)
    /\ last' = [op |-> "scanNext", err |-> o.cur.err, rid |-> o.rid,
                was |-> scanExecuting, args |-> NoArgs,
                log |-> o.cur.log]
    /\ emitted' = IF o.cur.err = "ok" THEN Append(emitted, o.rid) ELSE emitted
    /\ UNCHANGED <<treeVars, inserted, undisturbed, lifeVars>>

ScanNext == ScanNextWithin(MaxPins)

EndScan ==
  LET o == EndScanCall(Cur)
  IN /\ SetCursor(o)
     /\ pins' = ApplyLog(pins, o.log)
     /\ last' = [op |-> "endScan", err |-> o.err, rid |-> NoRid,
                 was |-> scanExecuting, args |-> NoArgs, log |-> o.log]
     /\ emitted' = IF o.err = "ok" THEN <<>> ELSE emitted
     /\ undisturbed' = IF o.err = "ok" THEN FALSE ELSE undisturbed
     /\ UNCHANGED <<treeVars, inserted, lifeVars>>

\* the startScan calls of Spec: every pair of bounds with every valid pair
\* of operators; with an operator outside its side's pair, a pair of bounds
\* in range and one out of range
ScanArgs ==
  {a \in ScanVals \X Ops \X ScanVals \X Ops :
     \/ a[2] \in {"GT", "GTE"} /\ a[4] \in {"LT", "LTE"}
     \/ <<a[1], a[3]>> \in {<<0, MaxKey>>, <<MaxKey + 1, 0>>}}

Next ==
  \/ Insert
  \/ \E a \in ScanArgs : StartScan(a[1], a[2], a[3], a[4])
  \/ ScanNext
  \/ EndScan

Spec == Init /\ [][Next]_vars

\* MaxTreeKey pairwise distinct keys inserted in any order, then scans of
\* the whole index
ScanAll ==
  /\ Cardinality(inserted) = MaxTreeKey
  /\ StartScan(0, "GT", MaxTreeKey, "LTE")

SpecScanAll == Init /\ [][TreeInsert \/ ScanAll \/ ScanNext \/ EndScan]_vars

\* keys that repeat, inserted while no scan is executing, and scans of one
\* key value below a root of level >= 1: the run of entries equal to v
\* (GTE v, LTE v) and everything above it (GT v, LTE MaxKey + 1)
DupBuild == ~scanExecuting /\ DupInsert
DupScan ==
  /\ pages[rootPageNum].level >= 1
  /\ \E v \in Keys :
       \/ StartScan(v, "GTE", v, "LTE")
       \/ StartScan(v, "GT", MaxKey + 1, "LTE")
SpecDupScan == Init /\ [][DupBuild \/ DupScan \/ ScanNext \/ EndScan]_vars

\* insertEntry calls made at any time, also between the scanNext calls of
\* an executing scan (keys 1..MaxMixKey, each at most MaxDup times,
\* MaxScanInserts calls at most), and scans that start below a root of
\* level >= 1
ScanInsert ==
  \E k \in 1..MaxMixKey : InsertUpTo(MaxScanInserts, MaxDup, k)
LevelScan ==
  /\ pages[rootPageNum].level >= 1
  /\ \E v \in 1..2 :
       \/ StartScan(v, "GT", MaxMixKey, "LTE")
       \/ StartScan(v, "GTE", MaxMixKey, "LT")
SpecScanInsert ==
  Init /\ [][ScanInsert \/ LevelScan \/ ScanNext \/ EndScan]_vars

(***************************************************************************)
(* Constructor and destructor                                              *)
(***************************************************************************)
\* the RID the relation scanner delivers with record i
RidOfRecord(rel, i) ==
  <<rel[i], Cardinality({j \in 1..i : rel[j] = rel[i]})>>

\* one pass of the build loop: insertEntry(key, rid) on index st for
\* INTEGER and DOUBLE, nothing for STRING (the one-element sets bind each
\* intermediate result once)
BuildStep(attributeType, st, key, rid) ==
  IF attributeType = "STRING" THEN st
  ELSE
  CHOOSE next \in
    {[st EXCEPT !.pages = r.pages,
                !.rootPageNum = r.rootPageNum,
                !.log = @ \o r.log,
                !.calls = Append(@, [key |-> key, rid |-> rid])] :
       r \in {InsertEntry(st.pages, st.rootPageNum, key, rid)}} : TRUE

\* the build loop from record i on: one insertEntry per record until the
\* scanner throws EndOfFileException
RECURSIVE BuildLoop(_, _, _, _)
BuildLoop(attributeType, st, rel, i) ==
  IF i > Len(rel) THEN st
  ELSE CHOOSE out \in
         {BuildLoop(attributeType, next, rel, i + 1) :
            next \in {BuildStep(attributeType, st, rel[i],
                                RidOfRecord(rel, i))}} : TRUE

\* the new file: metadata on headerPageNum, the level-0 root on the next
\* page, both unpinned
NewIndex(a) ==
  [err |-> "ok", created |-> TRUE,
   pages |-> <<IndexMetaInfo(a, headerPageNum + 1), NewNonLeaf>>,
   rootPageNum |-> headerPageNum + 1,
   log |-> Al(headerPageNum) \o Al(headerPageNum + 1)
             \o Un(headerPageNum) \o Un(headerPageNum + 1),
   calls |-> <<>>]

CreateIndex(a, rel) == BuildLoop(a.attrType, NewIndex(a), rel, 1)

\* the two pages of a new file as allocPage hands them out: nothing written,
\* every field zero (INTEGER is the first enumerator of Datatype)
AllocatedPages ==
  <<IndexMetaInfo([relationName |-> "", attrByteOffset |-> 0,
                   attrType |-> "INTEGER"], 0),
    NewNonLeaf>>

\* strcpy(metadata->relationName, ...) with a name that does not fit the
\* array: a build that checks the copy ends the process inside strcpy, after
\* both allocPage calls and before any unPinPage, with nothing written
StrcpyTerminates(a) ==
  [err |-> "Terminated", created |-> TRUE,
   pages |-> AllocatedPages,
   rootPageNum |-> headerPageNum + 1,
   log |-> Al(headerPageNum) \o Al(headerPageNum + 1),
   calls |-> <<>>]

\* the undefined copy of a name of NameSize characters or more: it returns
\* with the array overrun, or the process is ended in it
CreateOutcomes(a, rel) ==
  IF Len(a.relationName) >= NameSize
  THEN {CreateIndex(a, rel), StrcpyTerminates(a)}
  ELSE {CreateIndex(a, rel)}

\* relationName.compare(cmpRelationName) != 0 || ...: the string read is the
\* characters of the array followed by the bytes read behind it, and the
\* two strings are compared byte by byte
Mismatch(cmpRelationName, metadata, a) ==
  \/ NameBytes(cmpRelationName.chars) \o cmpRelationName.more
       # NameBytes(a.relationName)
  \/ metadata.attrType # a.attrType
  \/ metadata.attrByteOffset # a.attrByteOffset

\* the file exists: its metadata page is read and compared with the
\* arguments, the name being read as cmpRelationName
OpenIndex(a, stored, cmpRelationName) ==
  [err |-> IF Mismatch(cmpRelationName, stored[headerPageNum], a)
           THEN "BadIndexInfo"
           ELSE "ok",
   created |-> FALSE,
   pages |-> stored,
   rootPageNum |-> stored[headerPageNum].rootPageNo,
   log |-> Rd(headerPageNum),
   calls |-> <<>>]

\* BTreeIndex::BTreeIndex: the results the call can have
ConstructorOutcomes(fs, a, rel) ==
  IF FileExists(fs, IndexFileName(a))
  THEN {OpenIndex(a, fs[IndexFileName(a)], n) :
          n \in CmpRelationNames(fs[IndexFileName(a)][headerPageNum])}
  ELSE CreateOutcomes(a, rel)

\* the RIDs in the leaves of a file
StoredRids(pgs) ==
  UNION {{pgs[p].ridArray[i] : i \in 0..(pgs[p].numKeys - 1)} :
           p \in {q \in 1..Len(pgs) : pgs[q].kind = "leaf"}}

\* what the variables of the index show while no BTreeIndex object exists
NoIndexPages == <<MetaPage(headerPageNum + 1), NewNonLeaf>>
IdleCursor ==
  [Cur EXCEPT !.scanExecuting = FALSE, !.nextEntry = -1,
              !.currentPageNum = 0]

\* BTreeIndex::BTreeIndex: a BadIndexInfoException leaves no object; a
\* process ended inside the constructor makes no further call
Constructor(a) ==
  /\ ~alive
  /\ last.err # "Terminated"
  /\ \E o \in ConstructorOutcomes(files, a, relation) :
        /\ PinsWithin(ApplyLog(pins, o.log), MaxLifePins)
        /\ alive' = (o.err = "ok")
        /\ pages' = IF o.err = "ok" THEN o.pages ELSE pages
        /\ rootPageNum' = IF o.err = "ok" THEN o.rootPageNum ELSE rootPageNum
        /\ files' = IF o.err = "ok" \/ o.created
                    THEN [files EXCEPT ![IndexFileName(a)] = o.pages]
                    ELSE files
        /\ pins' = ApplyLog(pins, o.log)
        /\ inserted' = IF o.err = "ok" THEN StoredRids(o.pages) ELSE inserted
        /\ built' = o.calls
        /\ last' = [op |-> "constructor", err |-> o.err, rid |-> NoRid,
                    was |-> FALSE, args |-> NoArgs, log |-> o.log]
  /\ indexArgs' = a
  /\ SetCursor(IdleCursor)
  /\ emitted' = <<>>
  /\ undisturbed' = FALSE
  /\ UNCHANGED <<relation, closed>>

\* bufMgr->flushFile(file) in the sequence of buffer manager calls
Flush == <<[op |-> "flush", page |-> 0]>>

\* BTreeIndex::~BTreeIndex
Destructor ==
  /\ alive
  /\ closed.count < MaxCloses
  /\ LET c == IF scanExecuting THEN EndScanCall(Cur) ELSE Cur
     IN /\ SetCursor(c)
        /\ pins' = ApplyLog(pins, c.log)
        /\ last' = [op |-> "destructor", err |-> "ok", rid |-> NoRid,
                    was |-> scanExecuting, args |-> NoArgs,
                    log |-> c.log \o Flush]
  /\ files' = [files EXCEPT ![IndexFileName(indexArgs)] = NoFile]
  /\ closed' = [count |-> closed.count + 1, args |-> indexArgs,
                rootPageNum |-> rootPageNum, pages |-> pages]
  /\ alive' = FALSE
  /\ pages' = NoIndexPages
  /\ rootPageNum' = headerPageNum + 1
  /\ inserted' = {}
  /\ emitted' = <<>>
  /\ undisturbed' = FALSE
  /\ built' = <<>>
  /\ UNCHANGED <<indexArgs, relation>>

\* the relations the constructor may find, and the index files that may
\* exist before any constructor call: one under the name of DefaultArgs,
\* built over keys 1..StoredKeys with any metadata, or one that an earlier
\* constructor call for a long relation name has created
Relations == UNION {[1..n -> Keys] : n \in 0..MaxRecords}
StoredFiles ==
  {CreateIndex(m, [i \in 1..StoredKeys |-> i]).pages : m \in StoredArgs}
InitialFiles ==
  {[n \in FileNames |-> NoFile]}
    \cup {[n \in FileNames |->
             IF n = IndexFileName(DefaultArgs) THEN f ELSE NoFile] :
           f \in StoredFiles}
    \cup {[n \in FileNames |->
             IF n = IndexFileName(a)
             THEN CreateIndex(a, [i \in 1..StoredKeys |-> i]).pages
             ELSE NoFile] :
           a \in LongArgs}

LifeInit ==
  /\ pages = NoIndexPages
  /\ rootPageNum = headerPageNum + 1
  /\ pins = NoPins
  /\ scanExecuting = FALSE
  /\ nextEntry = -1
  /\ currentPageNum = 0
  /\ currentPageData = NewLeaf
  /\ lowOp = "GT"
  /\ highOp = "LT"
  /\ lowValInt = 0
  /\ highValInt = 0
  /\ last = [op |-> "none", err |-> "ok", rid |-> NoRid, was |-> FALSE,
             args |-> NoArgs, log |-> <<>>]
  /\ inserted = {}
  /\ emitted = <<>>
  /\ undisturbed = FALSE
  /\ alive = FALSE
  /\ indexArgs = DefaultArgs
  /\ files \in InitialFiles
  /\ relation \in Relations
  /\ built = <<>>
  /\ closed = NotClosed

\* calls on the index between a constructor and the destructor: inserts
\* while no scan is executing, scans of every key below a root of level >= 1
\* and on every STRING index
Closable == alive /\ closed.count < MaxCloses
LifeInsert ==
  /\ Closable
  /\ ~scanExecuting
  /\ \E k \in Keys :
       InsertUpTo(Cardinality(StoredRids(files[IndexFileName(indexArgs)]))
                    + MaxLifeInserts, MaxDupCopies, k)
LifeScan ==
  /\ Closable
  /\ indexArgs.attrType = "STRING" \/ pages[rootPageNum].level >= 1
  /\ StartScanWithin(MaxLifePins, 0, "GT", MaxKey + 1, "LTE")
LifeScanNext == Closable /\ ScanNextWithin(MaxLifePins)
LifeEndScan == Closable /\ EndScan

SpecLife ==
  LifeInit /\ [][\/ \E a \in CtorArgs : Constructor(a)
                 \/ LifeInsert
                 \/ LifeScan
                 \/ LifeScanNext
                 \/ LifeEndScan
                 \/ Destructor]_vars

(***************************************************************************)
(* Reading the tree                                                        *)
(***************************************************************************)
\* number of non-leaf nodes between the root (included) and a leaf: the
\* level-0 root and the level-1 root both point at leaves
RootDepth(pgs, root) == IF pgs[root].level = 0 THEN 1 ELSE pgs[root].level

HasLeaf(pgs, root) == ~(pgs[root].level = 0 /\ pgs[root].pageNoArray[0] = 0)

\* the leaves below page p, d non-leaf levels down, left to right
RECURSIVE SubtreeLeaves(_, _, _)
RECURSIVE ChildrenLeaves(_, _, _, _)
SubtreeLeaves(pgs, p, d) ==
  IF d = 0 THEN <<p>> ELSE ChildrenLeaves(pgs, p, 0, d)
ChildrenLeaves(pgs, p, i, d) ==
  IF i > pgs[p].numKeys THEN <<>>
  ELSE SubtreeLeaves(pgs, pgs[p].pageNoArray[i], d - 1)
         \o ChildrenLeaves(pgs, p, i + 1, d)

TreeLeaves(pgs, root) ==
  IF HasLeaf(pgs, root) THEN SubtreeLeaves(pgs, root, RootDepth(pgs, root))
  ELSE <<>>

\* the pages met by following rightSibPageNo from leaf p until a link is 0
\* (at most fuel pages, so that a cycle ends the walk)
RECURSIVE ChainFrom(_, _, _)
ChainFrom(pgs, p, fuel) ==
  IF p = 0 \/ fuel = 0 THEN <<>>
  ELSE <<p>> \o ChainFrom(pgs, pgs[p].rightSibPageNo, fuel - 1)

\* the live entries of a leaf, in slot order
LeafEntries(leaf) ==
  [i \in 1..leaf.numKeys |->
     [key |-> leaf.keyArray[i - 1], rid |-> leaf.ridArray[i - 1]]]

RECURSIVE EntriesOf(_, _)
EntriesOf(pgs, leafSeq) ==
  IF leafSeq = <<>> THEN <<>>
  ELSE LeafEntries(pgs[Head(leafSeq)]) \o EntriesOf(pgs, Tail(leafSeq))

\* the leaf insertEntry reads for key: child 0 under the level-0 root,
\* the page scanTree returns otherwise
InsertionLeaf(pgs, root, key) ==
  IF pgs[root].level = 0 THEN pgs[root].pageNoArray[0]
  ELSE ScanTreeStack(pgs, root, key).pageId

LeafKeys(leaf) == {leaf.keyArray[i] : i \in 0..(leaf.numKeys - 1)}

SeqRange(q) == {q[i] : i \in 1..Len(q)}

(***************************************************************************)
(* C2, C3: the tree after insertEntry calls                                *)
(***************************************************************************)
LeafChain == ChainFrom(pages, TreeLeaves(pages, rootPageNum)[1], Len(pages))

\* C2: after any insertEntry calls, following rightSibPageNo from the
\* leftmost leaf visits every leaf left to right and so every inserted
\* (key, RID) pair exactly once in non-decreasing key order, and only the
\* last leaf has rightSibPageNo = 0
C2_SiblingChain ==
  inserted # {} =>
    LET leaves == TreeLeaves(pages, rootPageNum)
        es == EntriesOf(pages, LeafChain)
    IN /\ LeafChain = leaves
       /\ Len(es) = Cardinality(inserted)
       /\ {es[i].rid : i \in 1..Len(es)} = inserted
       /\ \A i \in 1..Len(es) : es[i].key = KeyOf(es[i].rid)
       /\ \A i \in 1..(Len(es) - 1) : es[i].key <= es[i + 1].key
       /\ \A i \in 1..Len(leaves) :
            (pages[leaves[i]].rightSibPageNo = 0) <=> (i = Len(leaves))

\* C3: after every insertEntry, descending with any key inserted so far
\* ends at a leaf whose keyArray[0..numKeys) contains that key
C3_DescentFindsKey ==
  \A r \in inserted :
    LET p == InsertionLeaf(pages, rootPageNum, KeyOf(r))
    IN /\ p \in 1..Len(pages)
       /\ pages[p].kind = "leaf"
       /\ KeyOf(r) \in LeafKeys(pages[p])

(***************************************************************************)
(* C1, C4 .. C10: scans                                                    *)
(***************************************************************************)
\* the last call was startScan(LowValArg, LowOpArg, HighValArg, HighOpArg)
StartScanCalled == last.op = "startScan"
LowValArg == last.args[1]
LowOpArg == last.args[2]
HighValArg == last.args[3]
HighOpArg == last.args[4]

OpsValid == LowOpArg \in {"GT", "GTE"} /\ HighOpArg \in {"LT", "LTE"}

\* the last call was a startScan with valid operators and lowVal <= highVal
WellFormed == StartScanCalled /\ OpsValid /\ LowValArg <= HighValArg

\* the RIDs that startScan was asked for
Asked == Matching(LowValArg, LowOpArg, HighValArg, HighOpArg)

\* the RIDs that the executing scan was asked for
ScanOf == Matching(lowValInt, lowOp, highValInt, highOp)

\* a scan is executing, no insertEntry came after its startScan, and the
\* last call was a scanNext
Scanned == scanExecuting /\ undisturbed /\ last.op = "scanNext"

DistinctKeys == \A r \in inserted : r[2] = 1

\* the RIDs of S in ascending key order (keys pairwise distinct)
RECURSIVE Ascending(_)
Ascending(S) ==
  IF S = {} THEN <<>>
  ELSE LET m == CHOOSE r \in S : \A q \in S : KeyOf(r) <= KeyOf(q)
       IN <<m>> \o Ascending(S \ {m})

LevelZeroLeaf == pages[rootPageNum].level = 0 /\ HasLeaf(pages, rootPageNum)

\* C1: after insertEntry calls with pairwise distinct keys, a startScan with
\* valid operators, lowVal <= highVal and N >= 1 matching keys succeeds, the
\* scanNext calls that follow return the matching RIDs in ascending key
\* order, each once, and the scanNext after the N-th is the first to fail,
\* with IndexScanCompleted
C1_ScanYieldsMatching ==
  DistinctKeys =>
    /\ (WellFormed /\ Asked # {}) => (last.err = "ok" /\ scanExecuting)
    /\ (Scanned /\ ScanOf # {}) =>
         LET want == Ascending(ScanOf)
         IN /\ last.err \in {"ok", "IndexScanCompleted"}
            /\ Len(emitted) <= Len(want)
            /\ emitted = SubSeq(want, 1, Len(emitted))
            /\ (last.err = "IndexScanCompleted") => (emitted = want)

\* C4: while the root is the level-0 node over a single leaf, a startScan
\* with valid operators and at least one matching entry puts the cursor on
\* that leaf, and scanNext returns the matching RIDs, each once, in
\* ascending key order
C4_SingleLeafScan ==
  LevelZeroLeaf =>
    /\ (WellFormed /\ Asked # {}) =>
         /\ last.err = "ok"
         /\ scanExecuting
         /\ currentPageNum = pages[rootPageNum].pageNoArray[0]
    /\ (Scanned /\ ScanOf # {}) =>
         /\ last.err \in {"ok", "IndexScanCompleted"}
         /\ SeqRange(emitted) \subseteq ScanOf
         /\ \A i, j \in 1..Len(emitted) :
              i < j => /\ emitted[i] # emitted[j]
                       /\ KeyOf(emitted[i]) <= KeyOf(emitted[j])
         /\ (last.err = "IndexScanCompleted") => (SeqRange(emitted) = ScanOf)

\* C5: on a non-empty index, a startScan with valid operators,
\* lowVal <= highVal and lowVal greater than every key fails with
\* NoSuchKeyFound; stated for the trees whose root is above level 0, so
\* that the page startScan searches is a leaf
C5_LowAboveAllKeys ==
  (/\ pages[rootPageNum].level >= 1
   /\ WellFormed
   /\ \A r \in inserted : LowValArg > KeyOf(r))
    => last.err = "NoSuchKeyFound"

\* C6: on a non-empty index, a startScan with valid operators,
\* lowVal <= highVal and highVal less than every key fails with
\* NoSuchKeyFound and leaves no scan executing
C6_HighBelowAllKeys ==
  (/\ inserted # {}
   /\ WellFormed
   /\ \A r \in inserted : HighValArg < KeyOf(r))
    => (last.err = "NoSuchKeyFound" /\ ~scanExecuting)

\* C7: startScan fails with BadOpcodes exactly when lowOp is not GT or GTE
\* or highOp is not LT or LTE, whatever the bound values and the tree
C7_BadOpcodes ==
  StartScanCalled => ((last.err = "BadOpcodes") <=> ~OpsValid)

C7_Witness ==
  /\ StartScanCalled
  /\ last.err = "BadOpcodes"
  /\ LowOpArg = "GTE"
  /\ HighOpArg = "other"
  /\ pages[rootPageNum].level >= 1

\* C8: with valid operators startScan fails with BadScanrange exactly when
\* lowVal > highVal (lowVal = highVal passes validation), and it has read
\* or allocated no page when it fails so
C8_BadScanrange ==
  (StartScanCalled /\ OpsValid) =>
    /\ (last.err = "BadScanrange") <=> (LowValArg > HighValArg)
    /\ (last.err = "BadScanrange") =>
         \A i \in 1..Len(last.log) : last.log[i].op = "unpin"

C8_Witness ==
  /\ StartScanCalled
  /\ OpsValid
  /\ last.err = "BadScanrange"
  /\ LowValArg = HighValArg + 1
  /\ pages[rootPageNum].level >= 1

\* C9: after a startScan made while no scan was executing has failed with
\* BadOpcodes, BadScanrange or NoSuchKeyFound, scanExecuting is false and
\* scanNext and endScan both fail with ScanNotInitialized
C9_FailedStartLeavesIdle ==
  (/\ StartScanCalled
   /\ ~last.was
   /\ last.err \in {"BadOpcodes", "BadScanrange", "NoSuchKeyFound"})
    => /\ ~scanExecuting
       /\ \A o \in ScanNextOutcomes(pages, Cur) :
            o.cur.err = "ScanNotInitialized"
       /\ EndScanCall(Cur).err = "ScanNotInitialized"

C9_Witness ==
  /\ StartScanCalled
  /\ ~last.was
  /\ last.err = "NoSuchKeyFound"
  /\ pages[rootPageNum].level >= 1

\* the first buffer manager call of a startScan made while a scan is
\* executing releases the page the cursor is on
UnpinsPrevious ==
  /\ Len(last'.log) >= 1
  /\ last'.log[1] = [op |-> "unpin", page |-> currentPageNum]

\* C10 as stated: a startScan made while a scan is executing unpins the
\* previous leaf and leaves a scan executing for the new arguments
C10_RestartLeavesScanning ==
  [][(last'.op = "startScan" /\ scanExecuting) =>
       /\ UnpinsPrevious
       /\ scanExecuting'
       /\ <<lowValInt', lowOp', highValInt', highOp'>> = last'.args]_vars

\* C10: a startScan made while a scan is executing first unpins the previous
\* leaf; a scan is executing afterwards, for the new arguments, exactly when
\* the call returns normally; after a BadOpcodes or BadScanrange failure
\* the cursor is as endScan left it
C10_RestartEndsPrevious ==
  [][(last'.op = "startScan" /\ scanExecuting) =>
       /\ UnpinsPrevious
       /\ scanExecuting' <=> (last'.err = "ok")
       /\ scanExecuting' =>
            <<lowValInt', lowOp', highValInt', highOp'>> = last'.args
       /\ (last'.err \in {"BadOpcodes", "BadScanrange"}) =>
            (nextEntry' = -1 /\ currentPageNum' = 0)]_vars

C10_Witness ==
  /\ StartScanCalled
  /\ last.was
  /\ last.err = "ok"
  /\ last.log[1].page # currentPageNum
  /\ pages[rootPageNum].level >= 1

(***************************************************************************)
(* C11, C12: the cursor outside and at the end of a scan                   *)
(***************************************************************************)
\* C11: scanNext and endScan called while no scan is executing fail with
\* ScanNotInitialized and leave scanExecuting, nextEntry, currentPageNum,
\* the pin counts and the tree as they were
C11_NoScanNoEffect ==
  [][(last'.op \in {"scanNext", "endScan"} /\ ~scanExecuting) =>
       /\ last'.err = "ScanNotInitialized"
       /\ UNCHANGED <<scanExecuting, nextEntry, currentPageNum>>
       /\ UNCHANGED pins
       /\ UNCHANGED treeVars]_vars

C11_Witness ==
  /\ last.op \in {"scanNext", "endScan"}
  /\ ~last.was
  /\ last.err = "ScanNotInitialized"
  /\ inserted # {}
  /\ SumPins(pins, DOMAIN pins) = 0

\* the cursor fields that scanNext and endScan read or write
CursorFields(c) ==
  <<c.scanExecuting, c.nextEntry, c.currentPageNum, c.currentPageData,
    c.lowOp, c.highOp, c.lowValInt, c.highValInt>>

\* C12: once a scanNext has failed with IndexScanCompleted, the scanNext
\* calls that follow fail with IndexScanCompleted too and leave the cursor
\* as it is, and an endScan succeeds and leaves no scan executing, with
\* nextEntry = -1 and currentPageNum = 0
C12_ExhaustedStays ==
  (last.op = "scanNext" /\ last.err = "IndexScanCompleted") =>
    /\ scanExecuting
    /\ \A o \in ScanNextOutcomes(pages, Cur) :
         /\ o.cur.err = "IndexScanCompleted"
         /\ CursorFields(o.cur) = CursorFields(Cur)
         /\ o.cur.log = <<>>
    /\ LET e == EndScanCall(Cur)
       IN /\ e.err = "ok"
          /\ ~e.scanExecuting
          /\ e.nextEntry = -1
          /\ e.currentPageNum = 0

\* the scan ran off the last leaf of a tree of two levels and was asked
\* again
C12_Witness ==
  /\ last.op = "scanNext"
  /\ last.err = "IndexScanCompleted"
  /\ nextEntry = -1
  /\ pages[rootPageNum].level >= 1
  /\ Len(emitted) >= 2

(***************************************************************************)
(* C13 .. C20: the shape of the tree after insertEntry calls               *)
(***************************************************************************)
\* the child pointers in use on non-leaf page p
Children(pgs, p) == {pgs[p].pageNoArray[i] : i \in 0..pgs[p].numKeys}

\* the numbers of child pointers followed from page p to a leaf, over all
\* the paths below p
RECURSIVE LeafDistances(_, _)
LeafDistances(pgs, p) ==
  IF p \notin 1..Len(pgs) THEN {}
  ELSE IF pgs[p].kind = "leaf" THEN {0}
  ELSE IF pgs[p].kind = "nonleaf"
  THEN UNION {{d + 1 : d \in LeafDistances(pgs, q)} : q \in Children(pgs, p)}
  ELSE {}

\* C13 as stated: after insertEntry calls every leaf is at the same distance
\* from the root, and that distance is the root's level field
C13_LeafDepthIsLevel ==
  inserted # {} =>
    LeafDistances(pages, rootPageNum) = {pages[rootPageNum].level}

\* C13: after insertEntry calls every leaf is at the same distance from the
\* root; that distance is the root's level field once the level is 1 or
\* more, and it is 1 while the root is the level-0 node over its one leaf
C13_LeafDepthUniform ==
  inserted # {} =>
    LeafDistances(pages, rootPageNum) =
      {IF pages[rootPageNum].level = 0 THEN 1 ELSE pages[rootPageNum].level}

C13_Witness ==
  /\ pages[rootPageNum].level >= 2
  /\ Cardinality(LeafDistances(pages, rootPageNum)) = 1
  /\ Cardinality(inserted) = MaxTreeKey

\* C14: after any insertEntry every leaf holds between 1 and leafOccupancy
\* entries and every non-leaf at most nodeOccupancy keys, also right after
\* splits that reach the root
C14_NodeCapacity ==
  \A p \in 1..Len(pages) :
    /\ pages[p].kind = "leaf" =>
         (1 <= pages[p].numKeys /\ pages[p].numKeys <= LeafCap)
    /\ pages[p].kind = "nonleaf" =>
         (0 <= pages[p].numKeys /\ pages[p].numKeys <= NodeCap)

\* the last insertEntry split a leaf and every non-leaf above it, the root
\* included, and a full leaf remains
C14_Witness ==
  /\ last.op = "insertEntry"
  /\ \E i \in 1..Len(last.log) :
       last.log[i] = [op |-> "alloc", page |-> rootPageNum]
  /\ pages[rootPageNum].level >= 2
  /\ \E p \in 1..Len(pages) :
       pages[p].kind = "leaf" /\ pages[p].numKeys = LeafCap

NonLeafPages == {p \in 1..Len(pages) : pages[p].kind = "nonleaf"}

\* the numKeys + 1 child pointers in use on non-leaf p are page numbers of
\* the file other than the metadata page, pairwise distinct
ValidChildren(p) ==
  /\ \A i \in 0..pages[p].numKeys :
       pages[p].pageNoArray[i] \in 2..Len(pages)
  /\ \A i, j \in 0..pages[p].numKeys :
       i # j => pages[p].pageNoArray[i] # pages[p].pageNoArray[j]

\* C15 as stated: once an insertEntry has been made, every non-leaf, the
\* root included, has numKeys >= 1 and numKeys + 1 valid children
C15_NonLeafHasKey ==
  inserted # {} =>
    \A p \in NonLeafPages : pages[p].numKeys >= 1 /\ ValidChildren(p)

\* C15: every non-leaf other than the level-0 root has numKeys >= 1 and
\* numKeys + 1 valid children; the level-0 root has numKeys = 0 for as long
\* as it is the root, with child 0 = 0 before the first insertEntry and
\* child 0 its one leaf from the first insertEntry to the first leaf split
C15_NonLeafChildren ==
  \A p \in NonLeafPages :
    IF pages[p].level = 0
    THEN /\ p = rootPageNum
         /\ pages[p].numKeys = 0
         /\ (pages[p].pageNoArray[0] = 0) <=> (inserted = {})
         /\ inserted # {} =>
              (ValidChildren(p) /\ IsLeafPage(pages, pages[p].pageNoArray[0]))
    ELSE pages[p].numKeys >= 1 /\ ValidChildren(p)

C15_Witness ==
  /\ pages[rootPageNum].level >= 2
  /\ Cardinality(NonLeafPages) >= 3
  /\ \E p \in NonLeafPages : pages[p].numKeys = NodeCap

\* the keys stored in the leaves below page p
RECURSIVE SubtreeKeys(_, _)
SubtreeKeys(pgs, p) ==
  IF p \notin 1..Len(pgs) THEN {}
  ELSE IF pgs[p].kind = "leaf" THEN LeafKeys(pgs[p])
  ELSE IF pgs[p].kind = "nonleaf"
  THEN UNION {SubtreeKeys(pgs, q) : q \in Children(pgs, p)}
  ELSE {}

\* C16: after insertEntry calls, keys repeated or not, for every non-leaf
\* with numKeys >= 1 and every child index i, each key stored below child i
\* is < keyArray[i] when i < numKeys and >= keyArray[i - 1] when i >= 1
C16_SeparatorOrder ==
  \A p \in NonLeafPages :
    pages[p].numKeys >= 1 =>
      \A i \in 0..pages[p].numKeys :
        \A k \in SubtreeKeys(pages, pages[p].pageNoArray[i]) :
          /\ i < pages[p].numKeys => k < pages[p].keyArray[i]
          /\ i >= 1 => k >= pages[p].keyArray[i - 1]

LeafPages == {p \in 1..Len(pages) : pages[p].kind = "leaf"}

\* C17: after any insertEntry, in every leaf keyArray[0..numKeys) is
\* non-decreasing, strictly increasing when the inserted keys are pairwise
\* distinct, and every slot holds a key with the RID that was passed with
\* it to one insertEntry call
C17_LeafSortedPaired ==
  \A p \in LeafPages :
    /\ \A i, j \in 0..(pages[p].numKeys - 1) :
         i < j => /\ pages[p].keyArray[i] <= pages[p].keyArray[j]
                  /\ DistinctKeys => pages[p].keyArray[i] < pages[p].keyArray[j]
    /\ \A i \in 0..(pages[p].numKeys - 1) :
         /\ pages[p].ridArray[i] \in inserted
         /\ pages[p].keyArray[i] = KeyOf(pages[p].ridArray[i])

\* a leaf was split by an insertEntry of a repeated key, so that the shift,
\* the swap of the entry held aside and the copy to the new leaf have run
C17_Witness ==
  /\ last.op = "insertEntry"
  /\ \E i \in 1..Len(last.log) : last.log[i].op = "alloc"
  /\ pages[rootPageNum].level >= 1
  /\ ~DistinctKeys
  /\ \E p \in LeafPages :
       pages[p].numKeys = LeafCap /\ pages[p].keyArray[0] < pages[p].keyArray[1]

\* the leaf pages below page p
RECURSIVE SubtreeLeafSet(_, _)
SubtreeLeafSet(pgs, p) ==
  IF p \notin 1..Len(pgs) THEN {}
  ELSE IF pgs[p].kind = "leaf" THEN {p}
  ELSE IF pgs[p].kind = "nonleaf"
  THEN UNION {SubtreeLeafSet(pgs, q) : q \in Children(pgs, p)}
  ELSE {}

\* C18: after every insertEntry the rootPageNo of the metadata page equals
\* rootPageNum, and that page is the non-leaf from which every leaf of the
\* file is reached; a root split changes both within the one call
C18_RootPointer ==
  /\ pages[headerPageNum].kind = "meta"
  /\ pages[headerPageNum].rootPageNo = rootPageNum
  /\ rootPageNum \in 2..Len(pages)
  /\ pages[rootPageNum].kind = "nonleaf"
  /\ SubtreeLeafSet(pages, rootPageNum) = LeafPages

\* the last insertEntry split the root and allocated a new one
C18_Witness ==
  /\ last.op = "insertEntry"
  /\ \E i \in 1..Len(last.log) :
       last.log[i] = [op |-> "alloc", page |-> rootPageNum]
  /\ rootPageNum # 2
  /\ Cardinality(LeafPages) >= 4

\* the RIDs stored in the live slots of the leaves in set L
RidsIn(L) ==
  UNION {{pages[p].ridArray[i] : i \in 0..(pages[p].numKeys - 1)} : p \in L}

\* C19: on a new index the first leafOccupancy insertEntry calls split
\* nothing: the root stays the level-0 node on its page over one leaf that
\* holds every entry.  The next call splits that leaf once and upgrades the
\* root in place: same root page, level 1, numKeys 1, pageNoArray[1] the
\* new right leaf and keyArray[0] the first key of that leaf
C19_FirstSplit ==
  LET n == Cardinality(inserted)
      root == pages[rootPageNum]
  IN /\ (1 <= n /\ n <= LeafCap) =>
          /\ rootPageNum = 2
          /\ root.level = 0
          /\ Len(pages) = 3
          /\ LeafPages = {root.pageNoArray[0]}
          /\ pages[root.pageNoArray[0]].numKeys = n
          /\ RidsIn(LeafPages) = inserted
     /\ n = LeafCap + 1 =>
          /\ rootPageNum = 2
          /\ root.level = 1
          /\ root.numKeys = 1
          /\ Len(pages) = 4
          /\ root.pageNoArray[0] = 3
          /\ root.pageNoArray[1] = 4
          /\ LeafPages = {3, 4}
          /\ root.keyArray[0] = pages[4].keyArray[0]
          /\ pages[3].numKeys + pages[4].numKeys = n
          /\ RidsIn(LeafPages) = inserted

C19_Witness ==
  /\ Cardinality(inserted) = LeafCap + 1
  /\ pages[rootPageNum].level = 1
  /\ pages[rootPageNum].pageNoArray[1] = Len(pages)
  /\ last.op = "insertEntry"

\* the separator keys in use on non-leaf page p, in slot order
KeySeq(pgs, p) == [i \in 1..pgs[p].numKeys |-> pgs[p].keyArray[i - 1]]

\* the non-decreasing sequence q with x put in at its place
InsertSorted(q, x) ==
  LET n == Cardinality({i \in 1..Len(q) : q[i] <= x})
  IN SubSeq(q, 1, n) \o <<x>> \o SubSeq(q, n + 1, Len(q))

\* C20: an insertEntry whose splits reach a full root (of level >= 1)
\* allocates a brand-new root page with level = old root level + 1,
\* numKeys = 1, pageNoArray[0] = the old root page, pageNoArray[1] = the new
\* sibling of the old root and keyArray[0] = the promoted separator: of the
\* old root's keys with the key handed up from below put in, the one at
\* position k, those before it staying in the old root and those after it
\* going to the sibling; every leaf is one pointer further from the root
\* than before and the new root has exactly two children
C20_RootSplit ==
  [][rootPageNum' # rootPageNum =>
       LET old == rootPageNum
           new == rootPageNum'
           r == pages'[new]
           sib == r.pageNoArray[1]
       IN /\ new \notin 1..Len(pages)
          /\ new \in 1..Len(pages')
          /\ pages'[headerPageNum].rootPageNo = new
          /\ r.kind = "nonleaf"
          /\ r.level = pages[old].level + 1
          /\ r.numKeys = 1
          /\ r.pageNoArray[0] = old
          /\ sib \notin 1..Len(pages)
          /\ sib \in 1..Len(pages')
          /\ sib # new
          /\ pages'[sib].kind = "nonleaf"
          /\ pages'[sib].level = pages[old].level
          /\ pages[old].numKeys = NodeCap
          /\ pages'[old].numKeys = NodeSplitPos
          /\ \E x \in SubtreeKeys(pages', new) :
               InsertSorted(KeySeq(pages, old), x) =
                 KeySeq(pages', old) \o <<r.keyArray[0]>> \o KeySeq(pages', sib)
          /\ LeafDistances(pages', new) =
               {d + 1 : d \in LeafDistances(pages, old)}
          /\ Cardinality(LeafDistances(pages', new)) = 1
          /\ Cardinality(Children(pages', new)) = 2]_vars

\* the last insertEntry split the root and installed a new one above it
C20_Witness ==
  /\ last.op = "insertEntry"
  /\ \E i \in 1..Len(last.log) :
       last.log[i] = [op |-> "alloc", page |-> rootPageNum]
  /\ rootPageNum = Len(pages)
  /\ pages[rootPageNum].level = 2
  /\ pages[rootPageNum].numKeys = 1

(***************************************************************************)
(* C21: pins of insertEntry                                                *)
(***************************************************************************)
\* the number of entries among the first n of log that pin page p, less
\* the number that unpin it
RECURSIVE PinBalance(_, _, _)
PinBalance(log, n, p) ==
  IF n = 0 THEN 0
  ELSE PinBalance(log, n - 1, p)
         + (IF log[n].page # p THEN 0
            ELSE IF log[n].op = "unpin" THEN -1 ELSE 1)

LogPages(log) == {log[i].page : i \in 1..Len(log)}

\* every page pinned in log is unpinned in it as many times as it is
\* pinned, and never before it is pinned
LogBalanced(log) ==
  \A p \in LogPages(log) :
    /\ PinBalance(log, Len(log), p) = 0
    /\ \A n \in 1..Len(log) : PinBalance(log, n, p) >= 0

\* C21: every insertEntry unpins each page it has pinned by readPage or
\* allocPage as many times as it pinned it, on every path, so that the pin
\* count of every page is after the call what it was before
C21_InsertPinBalance ==
  [][last'.op = "insertEntry" =>
       /\ LogBalanced(last'.log)
       /\ \A p \in DOMAIN pins' :
            pins'[p] = IF p \in DOMAIN pins THEN pins[p] ELSE 0]_vars

\* the last insertEntry split a leaf, the non-leaf above it and the root
C21_Witness ==
  /\ last.op = "insertEntry"
  /\ Cardinality({i \in 1..Len(last.log) : last.log[i].op = "alloc"}) = 3
  /\ rootPageNum \in LogPages(last.log)
  /\ pages[rootPageNum].level = 2
  /\ SumPins(pins, DOMAIN pins) = 0

(***************************************************************************)
(* Pins of the scan cursor                                                 *)
(***************************************************************************)
\* C22: whenever no scan is executing (after endScan, after a startScan that
\* failed) no page is pinned, and no page has been unpinned more often than
\* it was pinned
C22_ScanPinBalance ==
  /\ \A p \in DOMAIN pins : pins[p] >= 0
  /\ ~scanExecuting => \A p \in DOMAIN pins : pins[p] = 0

(***************************************************************************)
(* Scans of a key that was inserted several times                          *)
(***************************************************************************)
\* the RIDs inserted with key v
RidsOfKey(v) == {r \in inserted : KeyOf(r) = v}

\* the scan that is executing has run to IndexScanCompleted with no
\* insertEntry since its startScan
ScanRunOut ==
  /\ scanExecuting
  /\ undisturbed
  /\ last.op = "scanNext"
  /\ last.err = "IndexScanCompleted"

\* C28: below a root of level >= 1 (leaf splits have occurred), a scan
\* (GTE v, LTE v) of a key v that was inserted m times starts and returns
\* exactly the m RIDs inserted with v, and a scan (GT v, ...) returns none
\* of them
C28_DuplicateRun ==
  pages[rootPageNum].level >= 1 =>
    /\ (/\ StartScanCalled
        /\ LowOpArg = "GTE" /\ HighOpArg = "LTE" /\ LowValArg = HighValArg
        /\ RidsOfKey(LowValArg) # {})
         => last.err = "ok"
    /\ (ScanRunOut /\ lowOp = "GTE" /\ highOp = "LTE"
          /\ lowValInt = highValInt)
         => /\ SeqRange(emitted) = RidsOfKey(lowValInt)
            /\ Len(emitted) = Cardinality(RidsOfKey(lowValInt))
    /\ (scanExecuting /\ undisturbed /\ lowOp = "GT")
         => SeqRange(emitted) \cap RidsOfKey(lowValInt) = {}

(***************************************************************************)
(* Leaf splits                                                             *)
(***************************************************************************)
\* the leaf that insertEntry(key) finds full in tree (pgs, root), 0 if it
\* finds none or one with room
FullLeaf(pgs, root, key) ==
  IF ~HasLeaf(pgs, root) THEN 0
  ELSE LET p == InsertionLeaf(pgs, root, key)
       IN IF pgs[p].numKeys >= LeafCap THEN p ELSE 0

\* the page allocPage hands to a leaf split: the first new page of the call
NewLeafId(pgs) == Len(pgs) + 1

\* C29: every leaf split gives the new right leaf the rightSibPageNo the
\* original leaf had before the split and makes the new leaf's page id the
\* original leaf's rightSibPageNo
C29_SplitLinks ==
  [][\A r \in inserted' \ inserted :
       LET p == FullLeaf(pages, rootPageNum, KeyOf(r))
       IN p # 0 =>
            /\ pages'[NewLeafId(pages)].kind = "leaf"
            /\ pages'[NewLeafId(pages)].rightSibPageNo = pages[p].rightSibPageNo
            /\ pages'[p].rightSibPageNo = NewLeafId(pages)]_vars

\* how often key v is a separator in the non-leaf pages 1..n of pgs
RECURSIVE SeparatorCount(_, _, _)
SeparatorCount(pgs, n, v) ==
  IF n = 0 THEN 0
  ELSE SeparatorCount(pgs, n - 1, v)
         + (IF pgs[n].kind = "nonleaf"
            THEN Cardinality({i \in 0..(pgs[n].numKeys - 1) :
                                pgs[n].keyArray[i] = v})
            ELSE 0)

\* C30: insertEntry into a full leaf leaves the LeafCap old entries and the
\* new one, sorted by key, in the original leaf (the first
\* (LeafCap + 1) / 2 of them) and the new right leaf (the others, in
\* order); no entry is lost or duplicated and the one separator the
\* non-leaf pages gain is the first key of the right leaf
C30_LeafSplit ==
  [][\A r \in inserted' \ inserted :
       LET p == FullLeaf(pages, rootPageNum, KeyOf(r))
           left == LeafEntries(pages'[p])
           right == LeafEntries(pages'[NewLeafId(pages)])
           all == left \o right
           old == LeafEntries(pages[p])
       IN p # 0 =>
            /\ pages'[NewLeafId(pages)].kind = "leaf"
            /\ Len(left) = (LeafCap + 1) \div 2
            /\ Len(right) = LeafCap + 1 - (LeafCap + 1) \div 2
            /\ \A i \in 1..(Len(all) - 1) : all[i].key <= all[i + 1].key
            /\ \A i, j \in 1..Len(all) : i # j => all[i].rid # all[j].rid
            /\ SeqRange(all)
                 = SeqRange(old) \cup {[key |-> KeyOf(r), rid |-> r]}
            /\ \A v \in 1..MaxTreeKey :
                 SeparatorCount(pages', Len(pages'), v)
                   = SeparatorCount(pages, Len(pages), v)
                       + (IF v = right[1].key THEN 1 ELSE 0)]_vars

\* the last insertEntry split a leaf below a root of level 2, and the new
\* right leaf is not the last of the chain
C30_Witness ==
  /\ last.op = "insertEntry"
  /\ pages[rootPageNum].level = 2
  /\ \E n \in 1..Len(last.log) :
       /\ last.log[n].op = "alloc"
       /\ \A j \in 1..(n - 1) : last.log[j].op # "alloc"
       /\ pages[last.log[n].page].kind = "leaf"
       /\ pages[last.log[n].page].numKeys = LeafCap + 1 - (LeafCap + 1) \div 2
       /\ pages[last.log[n].page].rightSibPageNo # 0

(***************************************************************************)
(* Constructor and destructor                                              *)
(***************************************************************************)
\* C23: when the constructor returns or throws, whether it opened an
\* existing file (metadata matching or BadIndexInfo) or created one, every
\* page it pinned has been unpinned: its buffer manager calls are balanced
\* and it leaves every pin count as it found it
C23_ConstructorPinBalance ==
  [][last'.op = "constructor" =>
       /\ LogBalanced(last'.log)
       /\ \A p \in DOMAIN pins' :
            pins'[p] = IF p \in DOMAIN pins THEN pins[p] ELSE 0]_vars

\* C25: a constructor call that finds its index file throws BadIndexInfo
\* (and leaves no index) when the stored relation name, attribute byte
\* offset or attribute type differs from its arguments; when all three
\* match it returns with rootPageNum = the stored rootPageNo, has called
\* insertEntry for no record and has allocated no page
C25_OpenExisting ==
  [][(last'.op = "constructor"
        /\ FileExists(files, IndexFileName(indexArgs'))) =>
       LET stored == files[IndexFileName(indexArgs')]
           m == stored[headerPageNum]
       IN IF \/ m.relationName # indexArgs'.relationName
             \/ m.attrByteOffset # indexArgs'.attrByteOffset
             \/ m.attrType # indexArgs'.attrType
          THEN last'.err = "BadIndexInfo" /\ ~alive'
          ELSE /\ last'.err = "ok"
               /\ alive'
               /\ rootPageNum' = m.rootPageNo
               /\ built' = <<>>
               /\ pages' = stored
               /\ \A n \in 1..Len(last'.log) : last'.log[n].op # "alloc"]_vars

\* the live slots of the leaves of a file
LeafSlots(pgs) ==
  {<<p, j>> \in (1..Len(pgs)) \X (0..(LeafCap - 1)) :
     pgs[p].kind = "leaf" /\ j < pgs[p].numKeys}

\* C26: a constructor call that finds no index file returns without error
\* after calling insertEntry once per record of the relation, in scanner
\* order, with the record's key and RID, and the leaves of the new index
\* then hold exactly one entry per record
C26_BuildFromRelation ==
  [][(last'.op = "constructor"
        /\ ~FileExists(files, IndexFileName(indexArgs'))) =>
       /\ last'.err = "ok"
       /\ alive'
       /\ Len(built') = Len(relation)
       /\ \A i \in 1..Len(relation) :
            /\ built'[i].key = relation[i]
            /\ built'[i].rid = RidOfRecord(relation, i)
            /\ \E sl \in LeafSlots(pages') :
                 /\ pages'[sl[1]].keyArray[sl[2]] = relation[i]
                 /\ pages'[sl[1]].ridArray[sl[2]] = RidOfRecord(relation, i)
       /\ Cardinality(LeafSlots(pages')) = Len(relation)]_vars

\* C27: a destructor call made while a scan is executing ends the scan,
\* unpinning the cursor's leaf before flushFile, no page of the file is
\* pinned at the flush, and afterwards the index file does not exist
C27_DestructorEndsScan ==
  [][(last'.op = "destructor" /\ scanExecuting) =>
       /\ ~scanExecuting'
       /\ \E n \in 1..Len(last'.log) :
            /\ last'.log[n].op = "flush"
            /\ \E j \in 1..(n - 1) :
                 last'.log[j] = [op |-> "unpin", page |-> currentPageNum]
       /\ \A p \in DOMAIN pins' : pins'[p] = 0
       /\ ~FileExists(files', IndexFileName(indexArgs))]_vars

\* a cursor on which no scan is executing
NoScan ==
  [scanExecuting |-> FALSE, nextEntry |-> -1, currentPageNum |-> 0,
   currentPageData |-> NewLeaf, lowOp |-> "GT", highOp |-> "LT",
   lowValInt |-> 0, highValInt |-> 0, log |-> <<>>, err |-> "ok"]

\* the sequences of outRids that scanNext calls can return from cursor c
\* until one of them throws
RECURSIVE ScanRun(_, _, _)
ScanRun(pgs, c, fuel) ==
  IF fuel = 0 THEN {<<>>}
  ELSE UNION {IF o.cur.err = "ok"
              THEN {<<o.rid>> \o t :
                      t \in ScanRun(pgs, [o.cur EXCEPT !.log = <<>>],
                                    fuel - 1)}
              ELSE {<<>>} : o \in ScanNextOutcomes(pgs, c)}

\* what startScan with the given bounds followed by scanNext calls can
\* return on the index (pgs, root)
ScanResults(pgs, root, lv, lo, hv, ho) ==
  UNION {IF o.err = "ok"
         THEN {[err |-> "ok", rids |-> t] :
                 t \in ScanRun(pgs, [o EXCEPT !.log = <<>>],
                               Len(pgs) * LeafCap + 1)}
         ELSE {[err |-> o.err, rids |-> <<>>]} :
           o \in StartScanOutcomes(pgs, root, NoScan, lv, lo, hv, ho)}

\* the constructor has returned an index for the arguments of the index
\* that the last destructor call closed
Reopened ==
  /\ last.op = "constructor"
  /\ last.err = "ok"
  /\ closed.count > 0
  /\ closed.args = indexArgs

\* C24: an index constructed again with the arguments of the index that
\* was closed has the root page number that index had at its close, and
\* every startScan/scanNext sequence returns what it returned before the
\* close
C24_RoundTrip ==
  Reopened =>
    /\ rootPageNum = closed.rootPageNum
    /\ \A lv, hv \in ScanVals : \A lo \in {"GT", "GTE"}, ho \in {"LT", "LTE"} :
         ScanResults(pages, rootPageNum, lv, lo, hv, ho)
           = ScanResults(closed.pages, closed.rootPageNum, lv, lo, hv, ho)

(***************************************************************************)
(* C31 .. C40                                                              *)
(***************************************************************************)
\* the child pointers in use on non-leaf page p, in slot order
ChildSeq(pgs, p) ==
  [i \in 1..(pgs[p].numKeys + 1) |-> pgs[p].pageNoArray[i - 1]]

\* the new non-leaf pages of the step that are at the level of page p
NewNodesAtLevelOf(p) ==
  {q \in (Len(pages) + 1)..Len(pages') :
     pages'[q].kind = "nonleaf" /\ pages'[q].level = pages[p].level}

\* C31: an insertEntry that puts a separator into a full non-leaf p forms
\* the sorted sequence of nodeOccupancy + 1 separators with nodeOccupancy + 2
\* children (the old ones, each key with the child to its right, and the
\* separator x handed up from below with its new page c) and splits it at
\* k = (nodeOccupancy + 1) / 2: p keeps keys [0, k) and children [0, k], one
\* new node q of the same level receives keys [k + 1, ..) and children
\* [k + 1, ..), the middle key m is in neither and is stored at a higher
\* level, and every child pointer is in exactly one of the two nodes
C31_NodeSplit ==
  [][\A p \in 1..Len(pages) :
       (/\ pages[p].kind = "nonleaf"
        /\ pages[p].numKeys = NodeCap
        /\ pages'[p] # pages[p]) =>
         LET k == (NodeCap + 1) \div 2
         IN /\ Cardinality(NewNodesAtLevelOf(p)) = 1
            /\ \A q \in NewNodesAtLevelOf(p) :
                 LET kids == ChildSeq(pages', p) \o ChildSeq(pages', q)
                     seps(m) == KeySeq(pages', p) \o <<m>> \o KeySeq(pages', q)
                 IN /\ pages'[p].kind = "nonleaf"
                    /\ pages'[p].level = pages[p].level
                    /\ pages'[p].numKeys = k
                    /\ pages'[q].numKeys = NodeCap - k
                    /\ Len(kids) = NodeCap + 2
                    /\ \A i, j \in 1..Len(kids) : i # j => kids[i] # kids[j]
                    /\ kids[1] = pages[p].pageNoArray[0]
                    /\ \E m, x \in {KeyOf(r) : r \in inserted'} :
                         \E c \in (Len(pages) + 1)..Len(pages') :
                           /\ \A i \in 1..NodeCap : seps(m)[i] <= seps(m)[i + 1]
                           /\ {<<seps(m)[i], kids[i + 1]>> : i \in 1..(NodeCap + 1)}
                                = {<<pages[p].keyArray[i], pages[p].pageNoArray[i + 1]>> :
                                     i \in 0..(NodeCap - 1)} \cup {<<x, c>>}
                           /\ \E u \in 1..Len(pages') :
                                /\ pages'[u].kind = "nonleaf"
                                /\ pages'[u].level > pages[p].level
                                /\ \E i \in 0..(pages'[u].numKeys - 1) :
                                     pages'[u].keyArray[i] = m]_vars

\* the last insertEntry split a non-leaf that is not the root: the page
\* allocated after the new leaf is a non-leaf of level 1 below a root of
\* level 2 that was not allocated by this call
C31_Witness ==
  /\ last.op = "insertEntry"
  /\ pages[rootPageNum].level = 2
  /\ rootPageNum # Len(pages)
  /\ pages[Len(pages)].kind = "nonleaf"
  /\ pages[Len(pages)].level = 1
  /\ [op |-> "alloc", page |-> Len(pages)] \in SeqRange(last.log)
  /\ pages[rootPageNum].numKeys = NodeCap

\* C32: on an index into which nothing has been inserted, a startScan with
\* valid operators and lowVal <= highVal fails with NoSuchKeyFound, no scan
\* is executing afterwards, no page is pinned, and the call has read no
\* page but the root, once, for the descent (no page is read as a leaf)
C32_EmptyIndexScan ==
  (inserted = {} /\ WellFormed) =>
    /\ last.err = "NoSuchKeyFound"
    /\ ~scanExecuting
    /\ \A p \in DOMAIN pins : pins[p] = 0
    /\ Cardinality({i \in 1..Len(last.log) : last.log[i].op = "read"}) <= 1
    /\ \A i \in 1..Len(last.log) : last.log[i].page = rootPageNum

\* the buffer manager calls among steps, in order
PinEvents(steps) == SelectSeq(steps, LAMBDA e : e.op # "write")

\* step i of steps stores into a non-leaf node of the tree after the call
ParentWrite(steps, i) ==
  /\ steps[i].op = "write"
  /\ pages'[steps[i].page].kind = "nonleaf"

\* before step i the page new has been allocated and the pages old and new
\* unpinned, and from step i on nothing is stored into either
LeavesDoneBefore(steps, i, old, new) ==
  /\ \E a \in 1..(i - 1) : steps[a] = [op |-> "alloc", page |-> new]
  /\ \E u \in 1..(i - 1) : steps[u] = [op |-> "unpin", page |-> old]
  /\ \E u \in 1..(i - 1) : steps[u] = [op |-> "unpin", page |-> new]
  /\ \A j \in i..Len(steps) :
       ~(steps[j].op = "write" /\ steps[j].page \in {old, new})

\* the steps of a root split: the new root is allocated, filled and
\* unpinned, then the metadata page is read, stored into and unpinned, all
\* before the last step of the call, and after the call the metadata page
\* names the new root
RootInstalled(steps) ==
  /\ \E a, b, c, d \in 1..(Len(steps) - 1) :
       /\ a < b /\ b < c /\ c < d
       /\ steps[a] = [op |-> "alloc", page |-> rootPageNum']
       /\ steps[b] = [op |-> "write", page |-> rootPageNum']
       /\ steps[c] = [op |-> "write", page |-> headerPageNum]
       /\ steps[d] = [op |-> "unpin", page |-> headerPageNum]
  /\ pages'[headerPageNum].rootPageNo = rootPageNum'
  /\ pages'[rootPageNum'].kind = "nonleaf"
  /\ pages'[rootPageNum'].numKeys = 1

\* C33 as stated: within an insertEntry that splits a leaf, in every case,
\* the new leaf is allocated and fully populated and both leaves are
\* unpinned before any parent non-leaf node is modified; when the root
\* splits, the new root is installed and the metadata root pointer updated
\* before insertEntry returns
C33_LeavesBeforeParents ==
  [][(last'.op = "insertEntry" /\ HasLeaf(pages, rootPageNum)) =>
       \A r \in inserted' \ inserted :
         LET steps == InsertSteps(pages, rootPageNum, KeyOf(r))
             old == InsertionLeaf(pages, rootPageNum, KeyOf(r))
             new == Len(pages) + 1
         IN /\ PinEvents(steps) = last'.log
            /\ pages[old].numKeys = LeafCap =>
                 \A i \in 1..Len(steps) :
                   ParentWrite(steps, i) => LeavesDoneBefore(steps, i, old, new)
            /\ rootPageNum' # rootPageNum => RootInstalled(steps)]_vars

\* C33: within an insertEntry that splits a leaf below a root of level >= 1
\* the new leaf is allocated and fully populated and both leaves are
\* unpinned before any non-leaf node is modified; in the first split, under
\* the level-0 root, the root (pinned for the whole call) is modified after
\* the new leaf is allocated and before that leaf is populated and the two
\* leaves are unpinned, and no other non-leaf is modified; when the root
\* splits, the new root is installed and the metadata root pointer updated
\* before insertEntry returns
C33_SplitOrder ==
  [][(last'.op = "insertEntry" /\ HasLeaf(pages, rootPageNum)) =>
       \A r \in inserted' \ inserted :
         LET steps == InsertSteps(pages, rootPageNum, KeyOf(r))
             old == InsertionLeaf(pages, rootPageNum, KeyOf(r))
             new == Len(pages) + 1
         IN /\ PinEvents(steps) = last'.log
            /\ (pages[old].numKeys = LeafCap /\ pages[rootPageNum].level >= 1) =>
                 /\ \E i \in 1..Len(steps) : ParentWrite(steps, i)
                 /\ \A i \in 1..Len(steps) :
                      ParentWrite(steps, i) => LeavesDoneBefore(steps, i, old, new)
            /\ (pages[old].numKeys = LeafCap /\ pages[rootPageNum].level = 0) =>
                 /\ \E a, i, w, u, v \in 1..Len(steps) :
                      /\ a < i /\ i < w /\ w < u /\ w < v
                      /\ steps[a] = [op |-> "alloc", page |-> new]
                      /\ steps[i] = [op |-> "write", page |-> rootPageNum]
                      /\ steps[w] = [op |-> "write", page |-> new]
                      /\ steps[u] = [op |-> "unpin", page |-> old]
                      /\ steps[v] = [op |-> "unpin", page |-> new]
                 /\ \A i \in 1..Len(steps) :
                      ParentWrite(steps, i) => steps[i].page = rootPageNum
            /\ rootPageNum' # rootPageNum => RootInstalled(steps)]_vars

\* the last insertEntry split a leaf, the non-leaf above it and the root
\* and installed a new root of level 2, and the first leaf split under the
\* level-0 root came before it
C33_Witness ==
  /\ last.op = "insertEntry"
  /\ rootPageNum = Len(pages)
  /\ pages[rootPageNum].level = 2
  /\ pages[headerPageNum].rootPageNo = rootPageNum
  /\ pages[2].level = 1
  /\ Cardinality({i \in 1..Len(last.log) : last.log[i].op = "alloc"}) = 3

\* a scanNext is delivering the last live entry of the leaf the cursor is on
EmitsLastOfLeaf ==
  /\ last'.op = "scanNext"
  /\ last'.err = "ok"
  /\ scanExecuting
  /\ IsLeafPage(pages, currentPageNum)
  /\ nextEntry + 1 >= pages[currentPageNum].numKeys

\* C34 as stated: a scanNext that emits the last entry of a leaf unpins that
\* leaf, then sets nextEntry = -1 if rightSibPageNo is 0, else pins the
\* right sibling and sets nextEntry = 0; after the last entry of the last
\* leaf the cursor holds no pinned leaf
C34_LastEntryUnpins ==
  [][EmitsLastOfLeaf =>
       LET rightPageId == pages[currentPageNum].rightSibPageNo
       IN IF rightPageId = 0
          THEN /\ last'.log = Un(currentPageNum)
               /\ nextEntry' = -1
               /\ \A p \in DOMAIN pins' : pins'[p] = 0
          ELSE /\ last'.log = Un(currentPageNum) \o Rd(rightPageId)
               /\ currentPageNum' = rightPageId
               /\ nextEntry' = 0
               /\ pins'[rightPageId] = 1]_vars

\* C34: a scanNext that emits the last entry of a leaf whose rightSibPageNo
\* is not 0 unpins that leaf, pins the right sibling and sets nextEntry = 0;
\* when rightSibPageNo is 0 it sets nextEntry = -1 and makes no buffer
\* manager call: the cursor stays on the last leaf, which remains pinned
\* (once) until the endScan of the scan unpins it
C34_LastEntryAdvance ==
  [][/\ EmitsLastOfLeaf =>
          LET rightPageId == pages[currentPageNum].rightSibPageNo
          IN IF rightPageId = 0
             THEN /\ last'.log = <<>>
                  /\ nextEntry' = -1
                  /\ currentPageNum' = currentPageNum
                  /\ scanExecuting'
                  /\ pins' = pins
                  /\ pins'[currentPageNum] = 1
             ELSE /\ last'.log = Un(currentPageNum) \o Rd(rightPageId)
                  /\ currentPageNum' = rightPageId
                  /\ nextEntry' = 0
                  /\ pins'[currentPageNum] = 0
                  /\ pins'[rightPageId] = 1
     /\ (scanExecuting /\ nextEntry = -1 /\ IsLeafPage(pages, currentPageNum)) =>
          /\ pins[currentPageNum] = 1
          /\ (last'.op = "endScan" /\ last'.err = "ok") =>
               /\ last'.log = Un(currentPageNum)
               /\ \A p \in DOMAIN pins' : pins'[p] = 0]_vars

\* the scan has delivered every entry of the index, the last entry of the
\* last leaf included, and has moved from leaf to leaf on the way
C34_Witness ==
  /\ last.op = "scanNext"
  /\ last.err = "ok"
  /\ scanExecuting
  /\ nextEntry = -1
  /\ Len(emitted) = MaxTreeKey
  /\ IsLeafPage(pages, currentPageNum)
  /\ pages[currentPageNum].rightSibPageNo = 0
  /\ pins[currentPageNum] = 1

\* the non-leaf pages that have page q among their children in use
ParentsOf(pgs, q) ==
  {p \in 1..Len(pgs) : pgs[p].kind = "nonleaf" /\ q \in Children(pgs, p)}

\* C35: when an insertEntry splits a leaf whose parent is not full, the
\* separator (the first key of the new leaf) is put into the parent at the
\* first index i with keyArray[i] > separator, the keys from i and the
\* children from i + 1 move right by one, pageNoArray[i + 1] is the new
\* leaf and numKeys grows by one; no other non-leaf is modified, no page
\* but the new leaf is allocated, and rootPageNum and the metadata page
\* are unchanged
C35_NonFullParent ==
  [][(last'.op = "insertEntry" /\ HasLeaf(pages, rootPageNum)) =>
       \A r \in inserted' \ inserted :
         LET old == InsertionLeaf(pages, rootPageNum, KeyOf(r))
             new == Len(pages) + 1
         IN \A par \in ParentsOf(pages, old) :
              (pages[old].numKeys = LeafCap /\ pages[par].numKeys < NodeCap) =>
                LET n == pages[par].numKeys
                    sepKey == pages'[new].keyArray[0]
                    G == {j \in 0..(n - 1) : pages[par].keyArray[j] > sepKey}
                    i == IF G = {} THEN n ELSE Min(G)
                IN /\ Len(pages') = new
                   /\ pages'[new].kind = "leaf"
                   /\ pages'[par].numKeys = n + 1
                   /\ \A j \in 0..n :
                        pages'[par].keyArray[j] =
                          IF j < i THEN pages[par].keyArray[j]
                          ELSE IF j = i THEN sepKey
                          ELSE pages[par].keyArray[j - 1]
                   /\ \A j \in 0..(n + 1) :
                        pages'[par].pageNoArray[j] =
                          IF j <= i THEN pages[par].pageNoArray[j]
                          ELSE IF j = i + 1 THEN new
                          ELSE pages[par].pageNoArray[j - 1]
                   /\ pages'[par].level =
                        (IF pages[par].level = 0 THEN 1 ELSE pages[par].level)
                   /\ \A q \in 1..Len(pages) :
                        q \notin {par, old} => pages'[q] = pages[q]
                   /\ rootPageNum' = rootPageNum
                   /\ pages'[headerPageNum] = pages[headerPageNum]
                   /\ Cardinality({t \in 1..Len(last'.log) :
                                     last'.log[t].op = "alloc"}) = 1]_vars

\* the last insertEntry split a leaf below a non-leaf of level 1 that is
\* not the root and had room: the new leaf is not its last child, so keys
\* and children were moved right, and the node is full now
C35_Witness ==
  /\ last.op = "insertEntry"
  /\ pages[Len(pages)].kind = "leaf"
  /\ [op |-> "alloc", page |-> Len(pages)] \in SeqRange(last.log)
  /\ pages[rootPageNum].level = 2
  /\ \E par \in ParentsOf(pages, Len(pages)) :
       /\ par # rootPageNum
       /\ pages[par].numKeys = NodeCap
       /\ pages[par].pageNoArray[NodeCap] # Len(pages)

\* the (key, RID) pairs in the live slots of the leaves reached from the
\* root through child pointers, left to right
TreeEntries == EntriesOf(pages, TreeLeaves(pages, rootPageNum))

\* C36: after any insertEntry calls the (key, RID) pairs in slots
\* [0, numKeys) of the leaves reached from the root through child pointers
\* are the pairs passed to insertEntry, each as often as it was passed
\* (once: RIDs are pairwise distinct): none is lost and none is duplicated
C36_EntriesPreserved ==
  /\ Len(TreeEntries) = Cardinality(inserted)
  /\ {TreeEntries[i].rid : i \in 1..Len(TreeEntries)} = inserted
  /\ \A i \in 1..Len(TreeEntries) :
       TreeEntries[i].key = KeyOf(TreeEntries[i].rid)

\* keys were repeated, and the last insertEntry split a leaf, the non-leaf
\* above it and the root
C36_Witness ==
  /\ last.op = "insertEntry"
  /\ ~DistinctKeys
  /\ rootPageNum = Len(pages)
  /\ pages[rootPageNum].level = 2
  /\ Cardinality({i \in 1..Len(last.log) : last.log[i].op = "alloc"}) = 3
  /\ Len(TreeEntries) >= 2 * LeafCap + 1

\* C37: whenever a scan is executing, nextEntry # -1 and no insertEntry has
\* been made since its startScan, currentPageNum is a leaf page that is
\* pinned and 0 <= nextEntry < numKeys of that leaf: the slot scanNext
\* reads next is a live slot of a leaf
C37_CursorOnLiveSlot ==
  (scanExecuting /\ nextEntry # -1 /\ undisturbed) =>
    /\ IsLeafPage(pages, currentPageNum)
    /\ pins[currentPageNum] >= 1
    /\ 0 <= nextEntry
    /\ nextEntry < pages[currentPageNum].numKeys

\* a scanNext has delivered the last entry of the leaf startScan found and
\* moved the cursor to slot 0 of its right sibling, which is pinned
C37_Witness ==
  /\ scanExecuting
  /\ undisturbed
  /\ nextEntry = 0
  /\ last.op = "scanNext"
  /\ last.err = "ok"
  /\ Len(emitted) >= 1
  /\ pages[rootPageNum].level >= 1
  /\ IsLeafPage(pages, currentPageNum)
  /\ pins[currentPageNum] = 1

\* every rightSibPageNo is 0 or a leaf page, and following the links from
\* any leaf ends at a link of 0 without visiting a leaf twice
SiblingChainAcyclic ==
  /\ \A p \in LeafPages :
       pages[p].rightSibPageNo = 0 \/ IsLeafPage(pages, pages[p].rightSibPageNo)
  /\ \A p \in LeafPages :
       LET chain == ChainFrom(pages, p, Cardinality(LeafPages) + 1)
       IN /\ Len(chain) <= Cardinality(LeafPages)
          /\ \A i, j \in 1..Len(chain) : i # j => chain[i] # chain[j]

NoRidTwice == \A i, j \in 1..Len(emitted) : i # j => emitted[i] # emitted[j]

\* the key of every outRid of the executing scan satisfies both bounds
WithinBounds ==
  \A i \in 1..Len(emitted) :
    /\ SatisfiesLow(KeyOf(emitted[i]), lowOp, lowValInt)
    /\ SatisfiesHigh(KeyOf(emitted[i]), highOp, highValInt)

\* the keys of the outRids of the executing scan are non-decreasing
KeyOrdered ==
  \A i, j \in 1..Len(emitted) : i < j => KeyOf(emitted[i]) <= KeyOf(emitted[j])

\* C39 as stated: a scan between whose scanNext calls insertEntry calls
\* were made (also ones that split the leaf the cursor is on) returns no
\* RID twice, no RID whose key violates the bounds, and RIDs in
\* non-decreasing key order
C39_InterleavedScan ==
  (scanExecuting /\ ~undisturbed) =>
    (NoRidTwice /\ WithinBounds /\ KeyOrdered)


\* C39: a scan started below a root of level >= 1, with insertEntry calls
\* made between its scanNext calls (also ones that split the leaf the
\* cursor is on), returns only RIDs that were passed to insertEntry, each
\* with a key that satisfies the upper bound (it may return a RID twice
\* and a RID whose key violates the lower bound)
C39_ScanUnderInserts ==
  (scanExecuting /\ ~undisturbed) =>
    \A i \in 1..Len(emitted) :
      /\ emitted[i] \in inserted
      /\ SatisfiesHigh(KeyOf(emitted[i]), highOp, highValInt)

\* an insertEntry made during the scan has split a leaf, and a scanNext
\* after it has returned a RID that the scan had returned before
C39_Witness ==
  /\ scanExecuting
  /\ ~undisturbed
  /\ last.op = "scanNext"
  /\ last.err = "ok"
  /\ ~NoRidTwice
  /\ Len(pages) >= 5
  /\ \A i \in 1..Len(emitted) : emitted[i] \in inserted

\* the non-leaf whose children are leaves on the descent for key: the last
\* page that scanTree pushes on its stack
LastNonLeaf(pgs, root, key) ==
  LET d == ScanTreeStack(pgs, root, key) IN d.stack[Len(d.stack)]

\* C40: at the non-leaf whose children are leaves, the right-sibling hint
\* of a descent is pageNoArray[i + 1] when i + 1 <= numKeys and 0 otherwise,
\* i being the index of the child chosen; it is 0 when the chosen child is
\* the last child in use, whatever pageNoArray holds beyond numKeys
C40_RightSiblingHint ==
  pages[rootPageNum].level >= 1 =>
    \A key \in 0..(MaxTreeKey + 1) :
      LET node == pages[LastNonLeaf(pages, rootPageNum, key)]
          i == ChildIndex(node, key)
      IN ScanTreeStack(pages, rootPageNum, key).rightPageId =
           (IF i + 1 <= node.numKeys THEN node.pageNoArray[i + 1] ELSE 0)

====
